---- MODULE Spec2Model ----
(***************************************************************************)
(* A model of src/app.js: the CSV -> normalised rows -> row hashes ->      *)
(* sorted leaves -> Merkle tree pipeline of CsvPanel, the generation       *)
(* counter that cancels superseded runs, and the left/right comparison.    *)
(*                                                                         *)
(* Representation.                                                         *)
(*   - A JavaScript string is a sequence of one-character strings.         *)
(*   - A byte array is a tagged value: <<"utf8", text>> for the encoding   *)
(*     of a text, <<"cat", l, r>> for two arrays copied one after the      *)
(*     other, and a digest itself (the 32 bytes it consists of).           *)
(*   - A digest is <<"sha256", bytes>>: SHA-256 is a function of its input *)
(*     without collisions.  A hex string of a digest is <<"hex", digest>>. *)
(*   - One atomic step of the model is one JavaScript job: an event        *)
(*     handler, or the continuation of an async function from one awaited  *)
(*     promise to the next.                                                *)
(***************************************************************************)
EXTENDS Integers, Sequences, FiniteSets, TLC

(***************************************************************************)
(* Generic helpers on sequences.                                           *)
(***************************************************************************)
Range(s) == {s[i] : i \in 1..Len(s)}

\* Array.prototype.join
RECURSIVE Join(_, _)
Join(parts, sep) ==
  IF parts = <<>> THEN <<>>
  ELSE IF Len(parts) = 1 THEN parts[1]
  ELSE parts[1] \o sep \o Join(Tail(parts), sep)

\* the permutations of a sequence, as sequences
Perms(s) ==
  {[i \in 1..Len(s) |-> s[f[i]]] :
     f \in {g \in [1..Len(s) -> 1..Len(s)] : \A i, j \in 1..Len(s) : g[i] = g[j] => i = j}}

(***************************************************************************)
(* Characters.                                                             *)
(***************************************************************************)
BOM == "BOM"                        \* U+FEFF
QUOTE == "\""
\* the characters matched by \s and removed by trim()
WhiteSpace == {" ", "\t", "\n", "\r", BOM}
CombiningAcute == "COMB"            \* U+0301

\* String.prototype.toLowerCase, on the characters the inputs use: the
\* letters A to Z map to a to z, every other character to itself
UpperCase ==
  <<"A", "B", "C", "D", "E", "F", "G", "H", "I", "J", "K", "L", "M",
    "N", "O", "P", "Q", "R", "S", "T", "U", "V", "W", "X", "Y", "Z">>
LowerCase ==
  <<"a", "b", "c", "d", "e", "f", "g", "h", "i", "j", "k", "l", "m",
    "n", "o", "p", "q", "r", "s", "t", "u", "v", "w", "x", "y", "z">>

Lower(c) ==
  IF \E k \in 1..Len(UpperCase) : UpperCase[k] = c
  THEN LowerCase[CHOOSE k \in 1..Len(UpperCase) : UpperCase[k] = c]
  ELSE c

\* the code units of the characters the inputs use, for comparisons of texts
CharCode(c) ==
  CASE c = "\t" -> 9
    [] c = "\n" -> 10
    [] c = "\r" -> 13
    [] c = " " -> 32
    [] c = "\"" -> 34
    [] c = "," -> 44
    [] c = "-" -> 45
    [] c = "." -> 46
    [] c \in {"0", "1", "2", "3", "4", "5", "6", "7", "8", "9"} ->
         48 + (CHOOSE v \in 0..9 : <<"0", "1", "2", "3", "4", "5", "6", "7", "8", "9">>[v + 1] = c)
    [] c = ":" -> 58
    [] c = "T" -> 84
    [] c = "Z" -> 90
    [] c = "\\" -> 92
    [] c = "a" -> 97
    [] c = "b" -> 98
    [] c = "c" -> 99
    [] c = "d" -> 100
    [] c = "e" -> 101
    [] c = "f" -> 102
    [] c = "i" -> 105
    [] c = "l" -> 108
    [] c = "m" -> 109
    [] c = "n" -> 110
    [] c = "o" -> 111
    [] c = "p" -> 112
    [] c = "r" -> 114
    [] c = "s" -> 115
    [] c = "t" -> 116
    [] c = "u" -> 117
    [] c = "w" -> 119
    [] c = "{" -> 123
    [] c = "|" -> 124
    [] c = "}" -> 125
    [] c = "e'" -> 233
    [] c = "COMB" -> 769
    [] OTHER -> 64

(***************************************************************************)
(* FIELD_CONFIG, HASH_FIELDS                                               *)
(***************************************************************************)
Title == <<"t", "i", "t", "l", "e">>
Username == <<"u", "s", "e", "r", "n", "a", "m", "e">>
Password == <<"p", "a", "s", "s", "w", "o", "r", "d">>
LastModified == <<"l", "a", "s", "t", " ", "m", "o", "d", "i", "f", "i", "e", "d">>

FIELD_CONFIG ==
  << [label |-> "Title", canonical |-> Title],
     [label |-> "Username", canonical |-> Username],
     [label |-> "Password", canonical |-> Password],
     [label |-> "Last Modified", canonical |-> LastModified] >>

HASH_FIELDS == [i \in 1..Len(FIELD_CONFIG) |-> FIELD_CONFIG[i].canonical]

DEFAULT_COLUMNS == Range(HASH_FIELDS)

\* A value that may be null is a sequence of at most one element.
Null == <<>>
Some(v) == <<v>>

(***************************************************************************)
(* Text normalisation (normalizeText, toCanonical)                         *)
(***************************************************************************)
\* String.prototype.trim
RECURSIVE TrimStart(_)
TrimStart(t) ==
  IF t # <<>> /\ Head(t) \in WhiteSpace THEN TrimStart(Tail(t)) ELSE t

RECURSIVE TrimEnd(_)
TrimEnd(t) ==
  IF t # <<>> /\ t[Len(t)] \in WhiteSpace
  THEN TrimEnd(SubSeq(t, 1, Len(t) - 1))
  ELSE t

Trim(t) == TrimEnd(TrimStart(t))

\* text.replace(/\s+/g, " ")
RECURSIVE CollapseWhiteSpace(_)
CollapseWhiteSpace(t) ==
  IF t = <<>> THEN <<>>
  ELSE IF Head(t) \in WhiteSpace
       THEN <<" ">> \o CollapseWhiteSpace(TrimStart(t))
       ELSE <<Head(t)>> \o CollapseWhiteSpace(Tail(t))

\* String.prototype.normalize("NFC"): the letter e followed by a combining
\* acute accent composes to the single character e-acute.
RECURSIVE NFC(_)
NFC(t) ==
  IF t = <<>> THEN <<>>
  ELSE IF Len(t) >= 2 /\ t[1] = "e" /\ t[2] = CombiningAcute
       THEN <<"e'">> \o NFC(SubSeq(t, 3, Len(t)))
       ELSE <<Head(t)>> \o NFC(Tail(t))

\* a slip: one white space character is removed from the start
normalizeTextTrimsOneCharacter(value) ==
  IF value = Null THEN <<>>
  ELSE LET text == TrimEnd(IF value[1] # <<>> /\ Head(value[1]) \in WhiteSpace
                           THEN Tail(value[1]) ELSE value[1])
       IN IF text = <<>> THEN <<>> ELSE NFC(CollapseWhiteSpace(text))

\* value is Null (null or undefined) or Some(text)
normalizeText(value) ==
  IF value = Null THEN <<>>
  ELSE LET text == Trim(value[1])
       IN IF text = <<>> THEN <<>> ELSE NFC(CollapseWhiteSpace(text))

toCanonical(value) ==
  LET t == Trim(value) IN [i \in 1..Len(t) |-> Lower(t[i])]

(***************************************************************************)
(* parseCsv                                                                *)
(***************************************************************************)
\* a slip: a blank line after the first row is kept as a row
pushRowIfNeededKeepsBlank(rows, currentRow) ==
  IF Len(currentRow) = 1 /\ Len(currentRow[1]) = 0 /\ Len(rows) = 0 THEN rows
  ELSE Append(rows, currentRow)

\* pushRowIfNeeded: the rows after the current row has been considered
pushRowIfNeeded(rows, currentRow) ==
  LET isEmptyRow == Len(currentRow) = 1 /\ Len(currentRow[1]) = 0
  IN IF isEmptyRow /\ Len(rows) = 0 THEN rows
     ELSE IF Len(currentRow) > 1 \/ (Len(currentRow) = 1 /\ currentRow[1] # <<>>)
          THEN Append(rows, currentRow)
          ELSE rows

\* the scanning loop from position i, and the code after the loop
RECURSIVE ScanCsv(_, _, _, _, _, _)
ScanCsv(source, i, rows, currentRow, currentValue, isInQuotes) ==
  IF i > Len(source)
  THEN LET lastRow == Append(currentRow, currentValue)
       IN IF Len(lastRow) > 1 \/ (Len(lastRow) = 1 /\ lastRow[1] # <<>>)
          THEN Append(rows, lastRow)
          ELSE rows
  ELSE LET char == source[i]
           hasNext == i + 1 <= Len(source)
       IN IF char = QUOTE /\ hasNext /\ source[i + 1] = QUOTE
          THEN ScanCsv(source, i + 2, rows, currentRow,
                       Append(currentValue, QUOTE), isInQuotes)
          ELSE IF char = QUOTE
          THEN ScanCsv(source, i + 1, rows, currentRow, currentValue, ~isInQuotes)
          ELSE IF char = "," /\ ~isInQuotes
          THEN ScanCsv(source, i + 1, rows, Append(currentRow, currentValue),
                       <<>>, isInQuotes)
          ELSE IF char \in {"\n", "\r"} /\ ~isInQuotes
          THEN LET skip == IF char = "\r" /\ hasNext /\ source[i + 1] = "\n"
                           THEN 2 ELSE 1
               IN ScanCsv(source, i + skip,
                          pushRowIfNeeded(rows, Append(currentRow, currentValue)),
                          <<>>, <<>>, isInQuotes)
          ELSE ScanCsv(source, i + 1, rows, currentRow,
                       Append(currentValue, char), isInQuotes)

\* the object built for one data row: entry[header] = row[index] ?? "" for
\* each header in turn, so the last column of a repeated header wins
MakeEntry(headers, row) ==
  [h \in Range(headers) |->
     LET index == CHOOSE k \in 1..Len(headers) :
                    headers[k] = h /\ \A m \in 1..Len(headers) : headers[m] = h => m <= k
     IN IF index <= Len(row) THEN row[index] ELSE <<>>]

parseCsv(text) ==
  LET source == IF text # <<>> /\ text[1] = BOM THEN Tail(text) ELSE text
      rows == ScanCsv(source, 1, <<>>, <<>>, <<>>, FALSE)
  IN IF rows = <<>> THEN [headers |-> <<>>, rows |-> <<>>]
     ELSE [headers |-> rows[1],
           rows |-> [k \in 1..(Len(rows) - 1) |-> MakeEntry(rows[1], rows[k + 1])]]

\* entry[headerName]: Null when the entry has no such key
Lookup(entry, headerName) ==
  IF headerName \in DOMAIN entry THEN Some(entry[headerName]) ELSE Null

(***************************************************************************)
(* buildActiveFields                                                       *)
(***************************************************************************)
\* headers.find(predicate) ?? null
RECURSIVE FindHeader(_, _)
FindHeader(headers, canonical) ==
  IF headers = <<>> THEN Null
  ELSE IF toCanonical(Head(headers)) = canonical THEN Some(Head(headers))
  ELSE FindHeader(Tail(headers), canonical)

\* a slip: a header is matched as it is written
buildActiveFieldsExactMatch(headers) ==
  [i \in 1..Len(FIELD_CONFIG) |->
     [label |-> FIELD_CONFIG[i].label,
      canonical |-> FIELD_CONFIG[i].canonical,
      headerName |-> IF FIELD_CONFIG[i].canonical \in Range(headers)
                     THEN Some(FIELD_CONFIG[i].canonical) ELSE Null]]

buildActiveFields(headers) ==
  [i \in 1..Len(FIELD_CONFIG) |->
     [label |-> FIELD_CONFIG[i].label,
      canonical |-> FIELD_CONFIG[i].canonical,
      headerName |-> FindHeader(headers, FIELD_CONFIG[i].canonical)]]

(***************************************************************************)
(* Comparisons and Array.prototype.sort                                    *)
(***************************************************************************)
\* the order of two texts by code units
RECURSIVE TextLess(_, _)
TextLess(a, b) ==
  IF b = <<>> THEN FALSE
  ELSE IF a = <<>> THEN TRUE
  ELSE IF CharCode(Head(a)) # CharCode(Head(b))
       THEN CharCode(Head(a)) < CharCode(Head(b))
       ELSE TextLess(Tail(a), Tail(b))

\* a.localeCompare(b) < 0 on the canonical field names (lower-case letters
\* and a space), which a locale orders as their code units
localeCompareLess(a, b) == TextLess(a, b)

\* Array.prototype.sort with a comparator: a stable sort.  negative[i][j] is
\* "the comparator returns a negative number for (s[i], s[j])".
StableSort(s, negative) ==
  LET n == Len(s)
      \* the place of each element, from one table of comparisons
      Places(neg) ==
        [i \in 1..n |-> 1 + Cardinality({j \in 1..n :
                              neg[j][i] \/ (~neg[i][j] /\ j < i)})]
      Sorted(seq, pos) == [k \in 1..n |-> seq[CHOOSE i \in 1..n : pos[i] = k]]
  IN CHOOSE sorted \in UNION {{Sorted(seq, pos) : pos \in {Places(neg)}} :
                                seq \in {s}, neg \in {negative}} : TRUE

(***************************************************************************)
(* Digests: TextEncoder, crypto.subtle.digest, hex                         *)
(***************************************************************************)
TextEncode(text) == <<"utf8", text>>
Concat(leftBytes, rightBytes) == <<"cat", leftBytes, rightBytes>>

\* the value a crypto.subtle.digest("SHA-256", data) promise resolves to
Digest(data) == <<"sha256", data>>

bytesToHex(bytes) == <<"hex", bytes>>
\* on the 64 hex digits of a digest (even length, not empty)
hexToBytes(hex) == hex[2]

\* sha256Hex as a function of its argument, the digest resolved
sha256Hex(text) == bytesToHex(Digest(TextEncode(text)))

\* the text a text digest was computed from
HexPreimage(hex) == hex[2][2][2]

RECURSIVE Mix(_, _)
Mix(text, acc) ==
  IF text = <<>> THEN acc
  ELSE Mix(Tail(text), (acc * 31 + CharCode(Head(text))) % 1009)

\* a.localeCompare(b) < 0 on the hex strings of two text digests.  The order
\* of two digests is unrelated to the order of their inputs: the model fixes
\* one total order, by a checksum of the input and then by the input.
hexCompareLess(a, b) ==
  LET ta == HexPreimage(a)
      tb == HexPreimage(b)
  IN Mix(ta, 7) < Mix(tb, 7) \/ (Mix(ta, 7) = Mix(tb, 7) /\ TextLess(ta, tb))

(***************************************************************************)
(* normalizeDate, normalizeEntry, canonicalizeEntry, buildHashInput        *)
(***************************************************************************)
Digits == <<"0", "1", "2", "3", "4", "5", "6", "7", "8", "9">>

IsDigits(t) == \A i \in 1..Len(t) : t[i] \in Range(Digits)

\* Number(text) on a text of digits
RECURSIVE NumberOf(_)
NumberOf(t) ==
  IF t = <<>> THEN 0
  ELSE 10 * NumberOf(SubSeq(t, 1, Len(t) - 1))
       + (CHOOSE v \in 0..9 : Digits[v + 1] = t[Len(t)])

\* String(n).padStart(width, "0")
RECURSIVE PadNumber(_, _)
PadNumber(n, width) ==
  IF width = 0 THEN <<>>
  ELSE PadNumber(n \div 10, width - 1) \o <<Digits[(n % 10) + 1]>>

\* millisecond.padEnd(3, "0").slice(0, 3)
PadEnd3(t) == SubSeq(t \o <<"0", "0">>, 1, 3)

\* A Date is the record of its UTC fields.
\* parseFlexibleDate on the texts the model uses:
\*  - YYYY-MM-DDTHH:MM:SS or YYYY-MM-DDTHH:MM:SS.f, .ff, .fff followed by Z,
\*    with a month 01-12, a day 01-28 and a time of the day: the pattern
\*    matches with the zone Z and new Date(isoString) is that instant;
\*  - a text without a digit: the pattern does not match and Date.parse
\*    gives NaN.
\* Texts with a local time, an offset or fields out of range depend on the
\* time zone and the date parser of the browser; the model gives null.
parseFlexibleDate(value) ==
  LET n == Len(value)
      shape == /\ n \in {20, 22, 23, 24}
               /\ IsDigits(SubSeq(value, 1, 4)) /\ value[5] = "-"
               /\ IsDigits(SubSeq(value, 6, 7)) /\ value[8] = "-"
               /\ IsDigits(SubSeq(value, 9, 10)) /\ value[11] \in {"T", "t", " "}
               /\ IsDigits(SubSeq(value, 12, 13)) /\ value[14] = ":"
               /\ IsDigits(SubSeq(value, 15, 16)) /\ value[17] = ":"
               /\ IsDigits(SubSeq(value, 18, 19))
               /\ value[n] = "Z"
               /\ n > 20 => value[20] = "." /\ IsDigits(SubSeq(value, 21, n - 1))
      ms == IF n > 20 THEN PadEnd3(SubSeq(value, 21, n - 1)) ELSE <<"0", "0", "0">>
      date == [year |-> NumberOf(SubSeq(value, 1, 4)),
               month |-> NumberOf(SubSeq(value, 6, 7)),
               day |-> NumberOf(SubSeq(value, 9, 10)),
               hour |-> NumberOf(SubSeq(value, 12, 13)),
               minute |-> NumberOf(SubSeq(value, 15, 16)),
               second |-> NumberOf(SubSeq(value, 18, 19)),
               millisecond |-> NumberOf(ms)]
  IN IF /\ shape
        /\ date.month \in 1..12 /\ date.day \in 1..28
        /\ date.hour \in 0..23 /\ date.minute \in 0..59 /\ date.second \in 0..59
     THEN Some(date)
     ELSE Null

\* Date.prototype.toISOString
toISOString(date) ==
  PadNumber(date.year, 4) \o <<"-">> \o PadNumber(date.month, 2) \o <<"-">>
  \o PadNumber(date.day, 2) \o <<"T">> \o PadNumber(date.hour, 2) \o <<":">>
  \o PadNumber(date.minute, 2) \o <<":">> \o PadNumber(date.second, 2) \o <<".">>
  \o PadNumber(date.millisecond, 3) \o <<"Z">>

\* text.replace(/\.\d{3}Z$/, "Z")
StripMilliseconds(t) ==
  LET n == Len(t)
  IN IF n >= 5 /\ t[n] = "Z" /\ t[n - 4] = "." /\ IsDigits(SubSeq(t, n - 3, n - 1))
     THEN SubSeq(t, 1, n - 5) \o <<"Z">>
     ELSE t

formatUtcIso(date) == StripMilliseconds(toISOString(date))

normalizeDate(value) ==
  LET normalizedText == normalizeText(value)
  IN IF normalizedText = <<>> THEN <<>>
     ELSE LET parsedDate == parseFlexibleDate(normalizedText)
          IN IF parsedDate = Null THEN <<>> ELSE formatUtcIso(parsedDate[1])

\* entry[field.headerName]; a null headerName is the property name "null"
RawValue(entry, field) ==
  Lookup(entry, IF field.headerName = Null THEN <<"n", "u", "l", "l">>
                ELSE field.headerName[1])

NormalizedValue(entry, field) ==
  IF field.canonical = LastModified
  THEN normalizeDate(RawValue(entry, field))
  ELSE normalizeText(RawValue(entry, field))

\* the object normalizeEntry returns: canonical name -> normalised value
normalizeEntry(entry, selectedFields) ==
  [c \in {selectedFields[i].canonical : i \in 1..Len(selectedFields)} |->
     LET i == CHOOSE k \in 1..Len(selectedFields) :
                /\ selectedFields[k].canonical = c
                /\ \A m \in 1..Len(selectedFields) :
                     selectedFields[m].canonical = c => m <= k
     IN NormalizedValue(entry, selectedFields[i])]

\* a slip: the parts are taken in the order of the selection
buildHashInputInSelectionOrder(normalizedEntry, selectedCanonical) ==
  Join([i \in 1..Len(selectedCanonical) |->
          IF selectedCanonical[i] \in DOMAIN normalizedEntry
          THEN normalizedEntry[selectedCanonical[i]] ELSE <<>>], <<"|">>)

buildHashInput(normalizedEntry, selectedCanonical) ==
  LET selectedSet == Range(selectedCanonical)
      fields == SelectSeq(HASH_FIELDS, LAMBDA f : f \in selectedSet)
      parts == [i \in 1..Len(fields) |->
                  IF fields[i] \in DOMAIN normalizedEntry
                  THEN normalizedEntry[fields[i]] ELSE <<>>]
  IN Join(parts, <<"|">>)

\* JSON.stringify of a string: quotes and backslashes are escaped
RECURSIVE JsonEscape(_)
JsonEscape(t) ==
  IF t = <<>> THEN <<>>
  ELSE (CASE Head(t) = QUOTE -> <<"\\", QUOTE>>
          [] Head(t) = "\\" -> <<"\\", "\\">>
          [] Head(t) = "\n" -> <<"\\", "n">>
          [] Head(t) = "\r" -> <<"\\", "r">>
          [] Head(t) = "\t" -> <<"\\", "t">>
          [] OTHER -> <<Head(t)>>) \o JsonEscape(Tail(t))

JsonString(t) == <<QUOTE>> \o JsonEscape(t) \o <<QUOTE>>

\* JSON.stringify of an object given as its keys in insertion order and
\* its values
JsonStringify(keys, object) ==
  <<"{">> \o
  Join([i \in 1..Len(keys) |->
          JsonString(keys[i]) \o <<":">> \o JsonString(object[keys[i]])], <<",">>)
  \o <<"}">>

\* the first occurrences of the elements of a sequence, in order
RECURSIVE Distinct(_)
Distinct(s) ==
  IF s = <<>> THEN <<>>
  ELSE LET front == SubSeq(s, 1, Len(s) - 1)
           last == s[Len(s)]
       IN IF last \in Range(front) THEN Distinct(front)
          ELSE Append(Distinct(front), last)

canonicalizeEntry(entry, selectedFields) ==
  LET n == Len(selectedFields)
      sortedFields == StableSort(selectedFields,
                        [i \in 1..n |-> [j \in 1..n |->
                           localeCompareLess(selectedFields[i].canonical,
                                             selectedFields[j].canonical)]])
      \* canonicalObject and its keys in insertion order, each computed once
      Stringified(kept) ==
        {JsonStringify(keys, canonicalObject) :
           keys \in {Distinct([i \in 1..Len(kept) |-> kept[i].canonical])},
           canonicalObject \in {normalizeEntry(entry, kept)}}
  IN CHOOSE json \in UNION
       {Stringified(kept) :
          kept \in {SelectSeq(sortedFields, LAMBDA f : f.headerName # Null)}} : TRUE

(***************************************************************************)
(* buildMerkleTree, doubleSha256Hex                                        *)
(*                                                                         *)
(* The state of a call of buildMerkleTree between two awaited digests:     *)
(*   pc        "idle": not called; "first" / "second": awaiting the first  *)
(*             / second digest of doubleSha256Hex; "returned"              *)
(*   levels    the levels pushed so far; the last one is workingLevel      *)
(*   nextLevel, i   the variables of the pair loop                         *)
(*   pending   the data of the digest operation in flight                  *)
(*   digests   the number of digest operations started                     *)
(*   result    the value returned: Null or Some([levels, root])            *)
(***************************************************************************)
LeafLevel(leaves) ==
  [k \in 1..Len(leaves) |->
     [hash |-> leaves[k].hash, title |-> leaves[k].title, isDuplicate |-> FALSE]]

DuplicateOf(last) ==
  [hash |-> last.hash, title |-> last.title, isDuplicate |-> TRUE]

\* a slip: left and right exchanged
PairDataSwapped(left, right) == Concat(hexToBytes(right.hash), hexToBytes(left.hash))

PadLevel(currentLevel) ==
  IF Len(currentLevel) > 1 /\ Len(currentLevel) % 2 = 1
  THEN Append(currentLevel, DuplicateOf(currentLevel[Len(currentLevel)]))
  ELSE currentLevel

\* the bytes doubleSha256Hex digests first
PairData(left, right) == Concat(hexToBytes(left.hash), hexToBytes(right.hash))

ParentNode(parentHash) == [hash |-> parentHash, title |-> Null, isDuplicate |-> FALSE]

\* a slip: the root level is returned without being pushed
MerkleLoopRootNotPushed(levels, currentLevel, digests) ==
  LET workingLevel == PadLevel(currentLevel)
      pushed == Append(levels, workingLevel)
  IN IF Len(workingLevel) = 1
     THEN [pc |-> "returned", levels |-> levels, nextLevel |-> <<>>, i |-> 0,
           pending |-> Null, digests |-> digests,
           result |-> Some([levels |-> levels, root |-> workingLevel[1].hash])]
     ELSE [pc |-> "first", levels |-> pushed, nextLevel |-> <<>>, i |-> 0,
           pending |-> Some(PairData(workingLevel[1], workingLevel[2])),
           digests |-> digests + 1, result |-> Null]

\* one pass of the while loop, up to the return or the first awaited digest
MerkleLoop(levels, currentLevel, digests) ==
  LET workingLevel == PadLevel(currentLevel)
      pushed == Append(levels, workingLevel)
  IN IF Len(workingLevel) = 1
     THEN [pc |-> "returned", levels |-> pushed, nextLevel |-> <<>>, i |-> 0,
           pending |-> Null, digests |-> digests,
           result |-> Some([levels |-> pushed, root |-> workingLevel[1].hash])]
     ELSE [pc |-> "first", levels |-> pushed, nextLevel |-> <<>>, i |-> 0,
           pending |-> Some(PairData(workingLevel[1], workingLevel[2])),
           digests |-> digests + 1, result |-> Null]

\* a slip: an odd level is padded also when it is a single node
buildMerkleTreePadsSingleLeaf(leaves) ==
  IF Len(leaves) = 0
  THEN [pc |-> "returned", levels |-> <<>>, nextLevel |-> <<>>, i |-> 0,
        pending |-> Null, digests |-> 0, result |-> Null]
  ELSE IF Len(leaves) = 1
  THEN MerkleLoop(<<>>, Append(LeafLevel(leaves), DuplicateOf(LeafLevel(leaves)[1])), 0)
  ELSE MerkleLoop(<<>>, LeafLevel(leaves), 0)

\* the call, up to the return or the first awaited digest
buildMerkleTree(leaves) ==
  IF Len(leaves) = 0
  THEN [pc |-> "returned", levels |-> <<>>, nextLevel |-> <<>>, i |-> 0,
        pending |-> Null, digests |-> 0, result |-> Null]
  ELSE MerkleLoop(<<>>, LeafLevel(leaves), 0)

\* the continuation when the digest in flight resolves to `digest`
MerkleResume(b, digest) ==
  IF b.pc = "first"
  THEN [b EXCEPT !.pc = "second", !.pending = Some(digest),
                 !.digests = b.digests + 1]
  ELSE LET workingLevel == b.levels[Len(b.levels)]
           nextLevel == Append(b.nextLevel, ParentNode(bytesToHex(digest)))
           i == b.i + 2
       IN IF i < Len(workingLevel)
          THEN [b EXCEPT !.pc = "first", !.nextLevel = nextLevel, !.i = i,
                         !.pending = Some(PairData(workingLevel[i + 1],
                                                   workingLevel[i + 2])),
                         !.digests = b.digests + 1]
          ELSE MerkleLoop(b.levels, nextLevel, b.digests)

\* doubleSha256Hex as a function of its arguments, all digests resolved
doubleSha256Hex(leftHex, rightHex) ==
  LET combined == Concat(hexToBytes(leftHex), hexToBytes(rightHex))
      first == Digest(combined)
      second == Digest(first)
  IN bytesToHex(second)

NotCalled ==
  [pc |-> "idle", levels |-> <<>>, nextLevel |-> <<>>, i |-> 0,
   pending |-> Null, digests |-> 0, result |-> Null]

(***************************************************************************)
(* State                                                                   *)
(***************************************************************************)
Panels == {"left", "right"}

VARIABLES
  parsedHeaders,       \* state.parsedHeaders of each panel
  parsedEntries,       \* state.parsedEntries
  activeFields,        \* state.activeFields
  computationVersion,  \* state.computationVersion
  currentRootHash,     \* state.currentRootHash
  latestHashes,        \* state.latestHashes
  lastMerkleData,      \* state.lastMerkleData: Null or Some(tree)
  highlightedHashes,   \* state.highlightedHashes
  columns,             \* the checkboxes of elements.columnList
  reads,               \* the file.text() promises handleFileInput awaits
  runs,                \* the calls of updateResults that captured a runId
  dual,                \* toggle.checked
  reqCount,            \* history: the number of requests made on a panel
  slotReq,             \* history: the request whose handler wrote the slot last
  arg,                 \* the argument of a function applied on its own
  res                  \* and the state of its call

panelVars ==
  <<parsedHeaders, parsedEntries, activeFields, computationVersion,
    currentRootHash, latestHashes, lastMerkleData, highlightedHashes,
    columns, reads, runs, dual, reqCount, slotReq>>

vars == <<panelVars, arg, res>>

\* the panels as constructed, before any event
PanelsConstructed ==
  /\ parsedHeaders = [p \in Panels |-> <<>>]
  /\ parsedEntries = [p \in Panels |-> <<>>]
  /\ activeFields = [p \in Panels |-> <<>>]
  /\ currentRootHash = [p \in Panels |-> Null]
  /\ latestHashes = [p \in Panels |-> <<>>]
  /\ lastMerkleData = [p \in Panels |-> Null]
  /\ highlightedHashes = [p \in Panels |-> {}]
  /\ columns = [p \in Panels |-> <<>>]
  /\ reads = [p \in Panels |-> <<>>]
  /\ runs = [p \in Panels |-> <<>>]
  /\ reqCount = [p \in Panels |-> 0]
  /\ slotReq = [p \in Panels |-> 0]

(***************************************************************************)
(* CsvPanel: renderColumns, getSelectedFields                              *)
(***************************************************************************)
\* the checkboxes renderColumns creates, one for each active field
renderColumns(fields) ==
  [i \in 1..Len(fields) |->
     LET hasHeader == fields[i].headerName # Null
     IN [field |-> fields[i].canonical,
         disabled |-> ~hasHeader,
         checked |-> hasHeader /\ fields[i].canonical \in DEFAULT_COLUMNS]]

\* columnList.querySelector(...)?.checked for the checkbox of a field
IsChecked(cols, canonical) ==
  /\ \E i \in 1..Len(cols) : cols[i].field = canonical
  /\ LET first == CHOOSE i \in 1..Len(cols) :
                    /\ cols[i].field = canonical
                    /\ \A j \in 1..Len(cols) : cols[j].field = canonical => i <= j
     IN cols[first].checked

getSelectedFields(fields, cols) ==
  SelectSeq(fields, LAMBDA field :
    field.headerName # Null /\ IsChecked(cols, field.canonical))

(***************************************************************************)
(* CsvPanel.updateResults                                                  *)
(*                                                                         *)
(* A call that captured a runId is a record:                               *)
(*   runId          the captured value of ++computationVersion             *)
(*   pc             "merkleHash" / "canonicalHash": awaiting the first /   *)
(*                  second sha256Hex of row `index`; "tree": awaiting      *)
(*                  buildMerkleTree; "done": published and returned;       *)
(*                  "abandoned": returned at a staleness check; "failed":  *)
(*                  its promise was rejected                               *)
(*   entries, selectedFields, titleField   the values the call captured    *)
(*   merkleHash, hashes, leafNodes, tree   its local variables             *)
(*   pending        the data of the sha256Hex digest in flight             *)
(*   digests        the number of digest operations it started             *)
(*   req, superseded   history: the request that started the call; a later *)
(*                  call captured a runId while this one was suspended     *)
(***************************************************************************)
\* a slip: the staleness check is left out
IsStaleNever(runId, version) == FALSE

\* runId !== this.state.computationVersion
IsStale(runId, version) == runId # version

Awaiting == {"merkleHash", "canonicalHash", "tree"}

EmptySlot == [latestHashes |-> <<>>, tree |-> Null]

\* activeFields.find(field => field.canonical === "title" && field.headerName)
FindTitleField(fields) ==
  LET hits == SelectSeq(fields, LAMBDA f : f.canonical = Title /\ f.headerName # Null)
  IN IF hits = <<>> THEN Null ELSE Some(hits[1])

SelectedCanonical(selectedFields) ==
  [i \in 1..Len(selectedFields) |-> selectedFields[i].canonical]

\* the text of the first sha256Hex of a row
RowHashInput(entry, selectedFields) ==
  buildHashInput(normalizeEntry(entry, selectedFields),
                 SelectedCanonical(selectedFields))

\* the run once it has returned or thrown: its local variables are gone
Ended(run, pc) ==
  [run EXCEPT !.pc = pc, !.entries = <<>>, !.merkleHash = Null,
              !.hashes = <<>>, !.leafNodes = <<>>, !.pending = Null,
              !.digests = run.digests + run.tree.digests, !.tree = NotCalled]

\* the number of digest operations the run has started
DigestsStarted(run) == run.digests + run.tree.digests

\* the data of the digest operation the run awaits
PendingData(run) ==
  IF run.pc = "tree" THEN run.tree.pending[1] ELSE run.pending[1]

\* a slip: the empty selection is not short-circuited
updateResultsHashesEmptySelection(entries, fields, cols, version, req) ==
  IF Len(entries) = 0
  THEN [version |-> version, run |-> Null, publish |-> Some(EmptySlot)]
  ELSE
    LET selectedFields == getSelectedFields(fields, cols)
        runId == version + 1
    IN [version |-> runId,
        run |-> Some([runId |-> runId, pc |-> "merkleHash", entries |-> entries,
                      selectedFields |-> selectedFields,
                      titleField |-> FindTitleField(fields), index |-> 1,
                      merkleHash |-> Null, hashes |-> <<>>, leafNodes |-> <<>>,
                      tree |-> NotCalled,
                      pending |-> Some(TextEncode(RowHashInput(entries[1], selectedFields))),
                      digests |-> 1, req |-> req, superseded |-> FALSE]),
        publish |-> Null]

\* the synchronous part of updateResults: the new counter, the run that
\* captured a runId (if any) and the slot it published (if any)
updateResults(entries, fields, cols, version, req) ==
  IF Len(entries) = 0
  THEN [version |-> version, run |-> Null, publish |-> Some(EmptySlot)]
  ELSE
    LET selectedFields == getSelectedFields(fields, cols)
        runId == version + 1
        run == [runId |-> runId, pc |-> "done", entries |-> <<>>,
                selectedFields |-> selectedFields,
                titleField |-> FindTitleField(fields), index |-> 0,
                merkleHash |-> Null, hashes |-> <<>>, leafNodes |-> <<>>,
                tree |-> NotCalled, pending |-> Null, digests |-> 0,
                req |-> req, superseded |-> FALSE]
    IN IF Len(selectedFields) = 0
       THEN [version |-> runId, run |-> Some(run), publish |-> Some(EmptySlot)]
       ELSE [version |-> runId,
             run |-> Some([run EXCEPT
                       !.pc = "merkleHash", !.entries = entries, !.index = 1,
                       !.pending = Some(TextEncode(RowHashInput(entries[1], selectedFields))),
                       !.digests = 1]),
             publish |-> Null]

\* a slip: leaves with equal hashes are published once
FinishRunMergesEqualLeaves(run, treeResult, version) ==
  IF IsStale(run.runId, version)
  THEN [run |-> Ended(run, "abandoned"), publish |-> Null]
  ELSE LET leaf == run.leafNodes
           merged[n \in 0..Len(leaf)] ==
             IF n = 0 THEN <<>>
             ELSE IF \E j \in 1..(n - 1) : leaf[j].hash = leaf[n].hash
                  THEN merged[n - 1]
                  ELSE Append(merged[n - 1], leaf[n])
       IN [run |-> Ended(run, "done"),
           publish |-> Some([latestHashes |-> merged[Len(leaf)], tree |-> treeResult])]

\* lines 277-282: the check after buildMerkleTree, and the publication
FinishRun(run, treeResult, version) ==
  IF IsStale(run.runId, version)
  THEN [run |-> Ended(run, "abandoned"), publish |-> Null]
  ELSE [run |-> Ended(run, "done"),
        publish |-> Some([latestHashes |-> run.leafNodes, tree |-> treeResult])]

\* a slip: the rows are left in the order of the file
SortHashesOmitted(hashes) == hashes

\* hashes.sort((a, b) => a.canonicalHash.localeCompare(b.canonicalHash))
SortHashes(hashes) ==
  StableSort(hashes,
             [i \in 1..Len(hashes) |-> [j \in 1..Len(hashes) |->
                hexCompareLess(hashes[i].canonicalHash, hashes[j].canonicalHash)]])

\* a slip: the staleness check after the loop is inverted
AfterRowsCheckInverted(run, version) ==
  IF ~IsStale(run.runId, version)
  THEN [run |-> Ended(run, "abandoned"), publish |-> Null]
  ELSE
    LET LeafNodes(sorted) ==
          [i \in 1..Len(sorted) |->
             [hash |-> sorted[i].merkleHash, title |-> sorted[i].title]]
        Started(leafNodes, b) ==
          [run EXCEPT !.pc = "tree", !.hashes = <<>>, !.pending = Null,
                      !.leafNodes = leafNodes, !.tree = b]
        Continue(leafNodes, b) ==
          IF b.pc = "returned"
          THEN FinishRun(Started(leafNodes, b), b.result, version)
          ELSE [run |-> Started(leafNodes, b), publish |-> Null]
    IN CHOOSE c \in UNION UNION
         {{{Continue(leafNodes, b) : b \in {buildMerkleTree(leafNodes)}} :
              leafNodes \in {LeafNodes(sorted)}} :
            sorted \in {SortHashes(run.hashes)}} : TRUE

\* lines 265-276: after the loop over the rows.  sorted, leafNodes and b
\* (the call of buildMerkleTree up to its first await) are computed once
AfterRows(run, version) ==
  IF IsStale(run.runId, version)
  THEN [run |-> Ended(run, "abandoned"), publish |-> Null]
  ELSE
    LET LeafNodes(sorted) ==
          [i \in 1..Len(sorted) |->
             [hash |-> sorted[i].merkleHash, title |-> sorted[i].title]]
        Started(leafNodes, b) ==
          [run EXCEPT !.pc = "tree", !.hashes = <<>>, !.pending = Null,
                      !.leafNodes = leafNodes, !.tree = b]
        Continue(leafNodes, b) ==
          IF b.pc = "returned"
          THEN FinishRun(Started(leafNodes, b), b.result, version)
          ELSE [run |-> Started(leafNodes, b), publish |-> Null]
    IN CHOOSE c \in UNION UNION
         {{{Continue(leafNodes, b) : b \in {buildMerkleTree(leafNodes)}} :
              leafNodes \in {LeafNodes(sorted)}} :
            sorted \in {SortHashes(run.hashes)}} : TRUE

\* the continuation of a run when the digest it awaits resolves to `digest`,
\* up to its next awaited digest or its return
ResumeRun(run, digest, version) ==
  CASE run.pc = "merkleHash" ->
         IF IsStale(run.runId, version)
         THEN [run |-> Ended(run, "abandoned"), publish |-> Null]
         ELSE [run |-> [run EXCEPT
                  !.pc = "canonicalHash",
                  !.merkleHash = Some(bytesToHex(digest)),
                  !.pending = Some(TextEncode(
                     canonicalizeEntry(run.entries[run.index], run.selectedFields))),
                  !.digests = run.digests + 1],
               publish |-> Null]
    [] run.pc = "canonicalHash" ->
         IF IsStale(run.runId, version)
         THEN [run |-> Ended(run, "abandoned"), publish |-> Null]
         ELSE
           LET entry == run.entries[run.index]
               titleValue == IF run.titleField # Null
                             THEN normalizeText(RawValue(entry, run.titleField[1]))
                             ELSE <<>>
               \* the run after hashes.push(...)
               AfterPush(pushed) ==
                 IF run.index < Len(run.entries)
                 THEN [run |-> [pushed EXCEPT
                          !.pc = "merkleHash",
                          !.index = run.index + 1,
                          !.pending = Some(TextEncode(
                             RowHashInput(run.entries[run.index + 1], run.selectedFields))),
                          !.digests = run.digests + 1],
                       publish |-> Null]
                 ELSE AfterRows(pushed, version)
           IN CHOOSE c \in {AfterPush(pushed) : pushed \in {[run EXCEPT
                  !.merkleHash = Null,
                  !.hashes = Append(run.hashes,
                     [merkleHash |-> run.merkleHash[1],
                      canonicalHash |-> bytesToHex(digest),
                      title |-> Some(titleValue)])]}} : TRUE
    [] run.pc = "tree" ->
         LET b == MerkleResume(run.tree, digest)
         IN IF b.pc = "returned"
            THEN FinishRun([run EXCEPT !.tree = b], b.result, version)
            ELSE [run |-> [run EXCEPT !.tree = b], publish |-> Null]

\* a slip: a failed run clears the results, as the catch block of
\* handleFileInput does for a failed read
RejectRunClearsResults(run) ==
  [run |-> Ended(run, "failed"), publish |-> Some(EmptySlot)]

\* the run when the digest it awaits is rejected: the exception leaves
\* sha256Hex or buildMerkleTree and rejects the promise of updateResults
RejectRun(run) == [run |-> Ended(run, "failed"), publish |-> Null]

(***************************************************************************)
(* handleComparison                                                        *)
(***************************************************************************)
\* Boolean(hash) of a string: false for the empty string only
Truthy(hash) == hash # <<>>

\* a slip: the hashes that are on one side only
handleComparisonBothWays(isDual, leftLatest, rightLatest) ==
  IF ~isDual THEN {}
  ELSE LET leftHashes == {leftLatest[i].hash : i \in 1..Len(leftLatest)}
           rightHashes == {rightLatest[i].hash : i \in 1..Len(rightLatest)}
       IN IF leftHashes = {} \/ Len(rightLatest) = 0 THEN {}
          ELSE (rightHashes \ leftHashes) \cup (leftHashes \ rightHashes)

\* the set handed to rightController.setDifferences
handleComparison(isDual, leftLatest, rightLatest) ==
  IF ~isDual THEN {}
  ELSE LET leftHashes == {leftLatest[i].hash : i \in
                            {j \in 1..Len(leftLatest) : Truthy(leftLatest[j].hash)}}
       IN IF leftHashes = {} \/ Len(rightLatest) = 0 THEN {}
          ELSE {rightLatest[i].hash : i \in {j \in 1..Len(rightLatest) :
                                                /\ Truthy(rightLatest[j].hash)
                                                /\ rightLatest[j].hash \notin leftHashes}}

(***************************************************************************)
(* The event handlers and continuations of the page                        *)
(***************************************************************************)
\* the number of requests made so far, on both panels
RequestsMade == reqCount["left"] + reqCount["right"]

\* the panel is shown: the right panel is hidden unless dual mode is on
Visible(p) == p = "left" \/ dual

\* a slip: the two panels share one state object for the published leaves
PublishSharedState(p, slot, req, isDual) ==
  /\ latestHashes' = [q \in Panels |-> slot.latestHashes]
  /\ lastMerkleData' = [lastMerkleData EXCEPT ![p] = slot.tree]
  /\ currentRootHash' = [currentRootHash EXCEPT ![p] =
        IF slot.tree = Null THEN Null ELSE Some(slot.tree[1].root)]
  /\ highlightedHashes' = [q \in Panels |->
        IF q = "right"
        THEN handleComparison(isDual, latestHashes'["left"], latestHashes'["right"])
        ELSE IF q = p /\ slot.tree = Null THEN {} ELSE highlightedHashes[q]]
  /\ slotReq' = [slotReq EXCEPT ![p] = req]

\* state.latestHashes = ...; renderMerkleTree(...); notifyChange(), with the
\* handleComparison that notifyChange runs
Publish(p, slot, req, isDual) ==
  /\ latestHashes' = [latestHashes EXCEPT ![p] = slot.latestHashes]
  /\ lastMerkleData' = [lastMerkleData EXCEPT ![p] = slot.tree]
  /\ currentRootHash' = [currentRootHash EXCEPT ![p] =
        IF slot.tree = Null THEN Null ELSE Some(slot.tree[1].root)]
  /\ highlightedHashes' = [q \in Panels |->
        IF q = "right"
        THEN handleComparison(isDual, latestHashes'["left"], latestHashes'["right"])
        ELSE IF q = p /\ slot.tree = Null THEN {} ELSE highlightedHashes[q]]
  /\ slotReq' = [slotReq EXCEPT ![p] = req]

NoPublish ==
  UNCHANGED <<latestHashes, lastMerkleData, currentRootHash, highlightedHashes, slotReq>>

\* a slip: the reset starts the counter again
resetDataRestartsCounter(p, req, isDual) ==
  /\ computationVersion' = [computationVersion EXCEPT ![p] = 0]
  /\ parsedHeaders' = [parsedHeaders EXCEPT ![p] = <<>>]
  /\ parsedEntries' = [parsedEntries EXCEPT ![p] = <<>>]
  /\ activeFields' = [activeFields EXCEPT ![p] = <<>>]
  /\ columns' = [columns EXCEPT ![p] = <<>>]
  /\ Publish(p, EmptySlot, req, isDual)

\* CsvPanel.resetData
resetData(p, req, isDual) ==
  /\ computationVersion' = [computationVersion EXCEPT ![p] = @ + 1]
  /\ parsedHeaders' = [parsedHeaders EXCEPT ![p] = <<>>]
  /\ parsedEntries' = [parsedEntries EXCEPT ![p] = <<>>]
  /\ activeFields' = [activeFields EXCEPT ![p] = <<>>]
  /\ columns' = [columns EXCEPT ![p] = <<>>]
  /\ Publish(p, EmptySlot, req, isDual)

\* the call this.updateResults() on the panel state (entries, fields, cols)
CallUpdateResults(p, entries, fields, cols, req) ==
  LET u == updateResults(entries, fields, cols, computationVersion[p], req)
  IN /\ computationVersion' = [computationVersion EXCEPT ![p] = u.version]
     /\ runs' = IF u.run = Null THEN runs
                ELSE [runs EXCEPT ![p] = Append(
                        [i \in 1..Len(@) |->
                           IF @[i].pc \in Awaiting
                           THEN [@[i] EXCEPT !.superseded = TRUE] ELSE @[i]],
                        u.run[1])]
     /\ IF u.publish = Null THEN NoPublish ELSE Publish(p, u.publish[1], req, dual)

RemoveAt(s, k) == [i \in 1..(Len(s) - 1) |-> IF i < k THEN s[i] ELSE s[i + 1]]

\* handleFileInput(file) up to `await file.text()`: a change of the file
\* input or a drop on the drop zone
FileChosen(p, text, maxRequests) ==
  /\ Visible(p)
  /\ RequestsMade < maxRequests
  /\ reqCount' = [reqCount EXCEPT ![p] = @ + 1]
  /\ reads' = [reads EXCEPT ![p] = Append(@, [text |-> text, req |-> reqCount[p] + 1])]
  /\ UNCHANGED <<parsedHeaders, parsedEntries, activeFields, computationVersion,
                 currentRootHash, latestHashes, lastMerkleData, highlightedHashes,
                 columns, runs, dual, slotReq, arg, res>>

\* handleFileInput after file.text() resolved
FileTextResolved(p, k) ==
  /\ k \in 1..Len(reads[p])
  /\ reads' = [reads EXCEPT ![p] = RemoveAt(@, k)]
  /\ LET parsed == parseCsv(reads[p][k].text)
         req == reads[p][k].req
     IN IF Len(parsed.headers) = 0 \/ Len(parsed.rows) = 0
        THEN resetData(p, req, dual) /\ UNCHANGED runs
        ELSE LET fields == buildActiveFields(parsed.headers)
                 cols == renderColumns(fields)
             IN /\ parsedHeaders' = [parsedHeaders EXCEPT ![p] = parsed.headers]
                /\ parsedEntries' = [parsedEntries EXCEPT ![p] = parsed.rows]
                /\ activeFields' = [activeFields EXCEPT ![p] = fields]
                /\ columns' = [columns EXCEPT ![p] = cols]
                /\ CallUpdateResults(p, parsed.rows, fields, cols, req)
  /\ UNCHANGED <<dual, reqCount, arg, res>>

\* handleFileInput when file.text() is rejected: the catch block
FileTextRejected(p, k) ==
  /\ k \in 1..Len(reads[p])
  /\ reads' = [reads EXCEPT ![p] = RemoveAt(@, k)]
  /\ resetData(p, reads[p][k].req, dual)
  /\ UNCHANGED <<runs, dual, reqCount, arg, res>>

\* the change listener of a checkbox that is not disabled
CheckboxChanged(p, i, maxRequests) ==
  /\ Visible(p)
  /\ RequestsMade < maxRequests
  /\ i \in 1..Len(columns[p])
  /\ ~columns[p][i].disabled
  /\ LET cols == [columns[p] EXCEPT ![i].checked = ~@]
     IN /\ columns' = [columns EXCEPT ![p] = cols]
        /\ CallUpdateResults(p, parsedEntries[p], activeFields[p], cols, reqCount[p] + 1)
  /\ reqCount' = [reqCount EXCEPT ![p] = @ + 1]
  /\ UNCHANGED <<parsedHeaders, parsedEntries, activeFields, reads, dual, arg, res>>

\* the click listener of the clear button: clearAll
ClearClicked(p, maxRequests) ==
  /\ Visible(p)
  /\ RequestsMade < maxRequests
  /\ reqCount' = [reqCount EXCEPT ![p] = @ + 1]
  /\ resetData(p, reqCount[p] + 1, dual)
  /\ UNCHANGED <<reads, runs, dual, arg, res>>

\* a slip: the run publishes without notifying the change handler
DigestResolvedWithoutNotify(p, r) ==
  /\ r \in 1..Len(runs[p])
  /\ runs[p][r].pc \in Awaiting
  /\ UNCHANGED <<parsedHeaders, parsedEntries, activeFields, computationVersion,
                 columns, reads, dual, reqCount, arg, res>>
  /\ \E run \in {runs[p][r]} :
       \E c \in {ResumeRun(run, Digest(PendingData(run)), computationVersion[p])} :
         /\ runs' = [runs EXCEPT ![p][r] = c.run]
         /\ IF c.publish = Null THEN NoPublish
            ELSE /\ latestHashes' = [latestHashes EXCEPT ![p] = c.publish[1].latestHashes]
                 /\ lastMerkleData' = [lastMerkleData EXCEPT ![p] = c.publish[1].tree]
                 /\ currentRootHash' = [currentRootHash EXCEPT ![p] =
                       Some(c.publish[1].tree[1].root)]
                 /\ slotReq' = [slotReq EXCEPT ![p] = run.req]
                 /\ UNCHANGED highlightedHashes

\* the continuation of run r of panel p when its digest resolves
DigestResolved(p, r) ==
  /\ r \in 1..Len(runs[p])
  /\ runs[p][r].pc \in Awaiting
  /\ UNCHANGED <<parsedHeaders, parsedEntries, activeFields, computationVersion,
                 columns, reads, dual, reqCount, arg, res>>
  /\ \E run \in {runs[p][r]} :
       \E c \in {ResumeRun(run, Digest(PendingData(run)), computationVersion[p])} :
         /\ runs' = [runs EXCEPT ![p][r] = c.run]
         /\ IF c.publish = Null THEN NoPublish
            ELSE Publish(p, c.publish[1], run.req, dual)

\* the digest run r of panel p awaits is rejected
DigestRejected(p, r) ==
  /\ r \in 1..Len(runs[p])
  /\ runs[p][r].pc \in Awaiting
  /\ LET c == RejectRun(runs[p][r])
     IN /\ runs' = [runs EXCEPT ![p][r] = c.run]
        /\ IF c.publish = Null THEN NoPublish
           ELSE Publish(p, c.publish[1], runs[p][r].req, dual)
  /\ UNCHANGED <<parsedHeaders, parsedEntries, activeFields, computationVersion,
                 columns, reads, dual, reqCount, arg, res>>

\* the change listener of the dual mode toggle: updateMode
DualToggled(maxRequests) ==
  /\ dual' = ~dual
  /\ IF dual
     THEN /\ RequestsMade < maxRequests
          /\ reqCount' = [reqCount EXCEPT !["right"] = @ + 1]
          /\ resetData("right", reqCount["right"] + 1, FALSE)
     ELSE /\ highlightedHashes' = [highlightedHashes EXCEPT !["right"] =
                handleComparison(TRUE, latestHashes["left"], latestHashes["right"])]
          /\ UNCHANGED <<parsedHeaders, parsedEntries, activeFields,
                         computationVersion, currentRootHash, latestHashes,
                         lastMerkleData, columns, reqCount, slotReq>>
  /\ UNCHANGED <<reads, runs, arg, res>>

(***************************************************************************)
(* The page: both panels, every event                                      *)
(***************************************************************************)
MaxRequests == 2

A == <<"a">>
B == <<"b">>

\* the text of a CSV file from its lines of cells
Csv(lines) == Join([i \in 1..Len(lines) |-> Join(lines[i], <<",">>)], <<"\n">>)

Files ==
  { Csv(<< <<Title, Username>>, <<A, B>>, <<B, A>> >>),
    Csv(<< <<Title>>, <<A>> >>),
    Csv(<< <<Title>> >>) }

\* the page after DOMContentLoaded: updateMode(toggle.checked) has cleared
\* the right panel when dual mode is off
Init ==
  /\ PanelsConstructed
  /\ dual \in BOOLEAN
  /\ computationVersion = [p \in Panels |-> IF p = "right" /\ ~dual THEN 1 ELSE 0]
  /\ arg = <<>>
  /\ res = NotCalled

Next ==
  \/ \E p \in Panels, text \in Files : FileChosen(p, text, MaxRequests)
  \/ \E p \in Panels, k \in 1..MaxRequests : FileTextResolved(p, k)
  \/ \E p \in Panels, k \in 1..MaxRequests : FileTextRejected(p, k)
  \/ \E p \in Panels, i \in 1..Len(FIELD_CONFIG) : CheckboxChanged(p, i, MaxRequests)
  \/ \E p \in Panels : ClearClicked(p, MaxRequests)
  \/ \E p \in Panels, r \in 1..MaxRequests : DigestResolved(p, r)
  \/ \E p \in Panels, r \in 1..MaxRequests : DigestRejected(p, r)
  \/ DualToggled(MaxRequests)

Spec == Init /\ [][Next]_vars

(***************************************************************************)
(* One panel: every event of one panel, the other panel left alone         *)
(***************************************************************************)
MaxPanelRequests == 2

PanelFiles ==
  { Csv(<< <<Title, Username>>, <<A, B>>, <<B, A>> >>),
    Csv(<< <<Title>> >>) }

\* the panel the events happen on.  The two panels run the same code; the
\* right one differs only in receiving the highlights, which stay empty
\* while the other panel holds no hashes
Loaded == {"left"}

InitPanel == Init /\ dual = TRUE

NextPanel ==
  \/ \E p \in Loaded, text \in PanelFiles : FileChosen(p, text, MaxPanelRequests)
  \/ \E p \in Panels, k \in 1..MaxPanelRequests : FileTextResolved(p, k)
  \/ \E p \in Panels, k \in 1..MaxPanelRequests : FileTextRejected(p, k)
  \/ \E p \in Loaded, i \in 1..Len(FIELD_CONFIG) :
       CheckboxChanged(p, i, MaxPanelRequests)
  \/ \E p \in Loaded : ClearClicked(p, MaxPanelRequests)
  \/ \E p \in Panels, r \in 1..MaxPanelRequests : DigestResolved(p, r)
  \/ \E p \in Panels, r \in 1..MaxPanelRequests : DigestRejected(p, r)

SpecPanel == InitPanel /\ [][NextPanel]_vars

(***************************************************************************)
(* buildMerkleTree on its own                                              *)
(***************************************************************************)
MaxLeaves == 5

LeafHashes == {bytesToHex(Digest(TextEncode(<<c>>))) : c \in {"a", "b"}}
LeafTitles == {<<>>, <<"t">>}
Leaves == [hash : LeafHashes, title : {Some(t) : t \in LeafTitles}]
LeafSeqs == UNION {[1..n -> Leaves] : n \in 0..MaxLeaves}

InitMerkle ==
  /\ PanelsConstructed
  /\ dual = TRUE
  /\ computationVersion = [p \in Panels |-> 0]
  /\ arg \in LeafSeqs
  /\ res = NotCalled

MerkleCall ==
  /\ res.pc = "idle"
  /\ res' = buildMerkleTree(arg)
  /\ UNCHANGED <<panelVars, arg>>

MerkleDigestResolved ==
  /\ res.pc \in {"first", "second"}
  /\ res' = MerkleResume(res, Digest(res.pending[1]))
  /\ UNCHANGED <<panelVars, arg>>

NextMerkle == MerkleCall \/ MerkleDigestResolved

SpecMerkle == InitMerkle /\ [][NextMerkle]_vars /\ WF_vars(NextMerkle)

(***************************************************************************)
(* updateResults on its own: the rows of a file and a permutation of them, *)
(* computed one after the other with the same selection                    *)
(***************************************************************************)
MaxRows == 3

RowHeaders == <<Title, Username>>
RowChoices == << <<A, A>>, <<B, A>>, <<A, B>> >>
\* the files of at most MaxRows rows, one arrangement of each: the rows in
\* the order of RowChoices.  The second computation takes every arrangement
\* of the rows, so two arrangements that each publish the root of this one
\* publish the same root.
RowSeqs ==
  UNION {{[k \in 1..n |-> RowChoices[f[k]]] :
            f \in {g \in [1..n -> 1..Len(RowChoices)] :
                     \A i, j \in 1..n : i < j => g[i] <= g[j]}} :
           n \in 1..MaxRows}

\* the checkboxes after the user has set them to the selection `selected`
ColumnsWith(fields, selected) ==
  [i \in 1..Len(fields) |->
     [renderColumns(fields)[i] EXCEPT
        !.checked = ~renderColumns(fields)[i].disabled /\ fields[i].canonical \in selected]]

InitRows ==
  /\ PanelsConstructed
  /\ dual = TRUE
  /\ computationVersion = [p \in Panels |-> 0]
  /\ \E rows \in RowSeqs, selected \in SUBSET Range(RowHeaders) :
       \E permuted \in Perms(rows) :
         arg = [first |-> [k \in 1..Len(rows) |-> MakeEntry(RowHeaders, rows[k])],
                second |-> [k \in 1..Len(rows) |-> MakeEntry(RowHeaders, permuted[k])],
                fields |-> buildActiveFields(RowHeaders),
                cols |-> ColumnsWith(buildActiveFields(RowHeaders), selected)]
  /\ res = [pc |-> "idle", run |-> Null, published |-> <<>>]

\* the computation after the call or continuation of its first or second
\* updateResults returned the run and the publication `c`
RowsAfter(pc, c) ==
  LET published == IF c.publish = Null THEN res.published
                   ELSE Append(res.published, c.publish[1])
  IN IF c.run # Null /\ c.run[1].pc \in Awaiting
     THEN [pc |-> pc, run |-> c.run, published |-> published]
     ELSE [pc |-> IF pc = "first" THEN "between" ELSE "done",
           run |-> Null, published |-> published]

\* updateResults() on the rows, and then on the permuted rows
RowsCall ==
  /\ res.pc \in {"idle", "between"}
  /\ res' = IF res.pc = "idle"
            THEN RowsAfter("first", updateResults(arg.first, arg.fields, arg.cols, 0, 1))
            ELSE RowsAfter("second", updateResults(arg.second, arg.fields, arg.cols, 0, 1))
  /\ UNCHANGED <<panelVars, arg>>

\* the digest the run awaits resolves; the counter still equals its runId
RowsDigestResolved ==
  /\ res.run # Null
  /\ LET run == res.run[1]
         c == ResumeRun(run, Digest(PendingData(run)), run.runId)
     IN res' = RowsAfter(res.pc, [run |-> Some(c.run), publish |-> c.publish])
  /\ UNCHANGED <<panelVars, arg>>

NextRows == RowsCall \/ RowsDigestResolved

SpecRows == InitRows /\ [][NextRows]_vars

\* the root a published slot shows: Null when there is no tree
RootOf(slot) == IF slot.tree = Null THEN Null ELSE Some(slot.tree[1].root)

\* C5: for one selection, the rows of a file and any permutation of them
\* publish the same Merkle root, also when rows are equal under the
\* selection.
C5_RootIndependentOfRowOrder ==
  res.pc = "done" =>
    /\ Len(res.published) = 2
    /\ RootOf(res.published[1]) = RootOf(res.published[2])

\* three rows, two of them equal under the selection {username} but with
\* different titles, in two different orders, gave a tree each
C5_Witness ==
  /\ res.pc = "done"
  /\ Len(arg.first) = 3
  /\ arg.first # arg.second
  /\ arg.first[1] # arg.first[2]
  /\ arg.first[1][Username] = arg.first[2][Username]
  /\ arg.first[3][Username] # arg.first[2][Username]
  /\ ~arg.cols[1].checked /\ arg.cols[2].checked
  /\ RootOf(res.published[1]) # Null
  /\ [i \in 1..3 |-> res.published[1].latestHashes[i].title]
       # [i \in 1..3 |-> res.published[2].latestHashes[i].title]

(***************************************************************************)
(* buildHashInput on its own: one row, one set of selected fields in two   *)
(* orders                                                                  *)
(***************************************************************************)
AllHeaders == <<Title, Username, Password, LastModified>>
CellChoices == {A, B, <<" ", "a", " ", " ", "b">>}

\* the orders of the subsets of the fields
SelectionOrders ==
  UNION {Perms(SelectSeq(buildActiveFields(AllHeaders),
                         LAMBDA f : f.canonical \in selected)) :
           selected \in SUBSET Range(AllHeaders)}

InitHashInput ==
  /\ PanelsConstructed
  /\ dual = TRUE
  /\ computationVersion = [p \in Panels |-> 0]
  /\ \E t, u \in CellChoices, first, second \in SelectionOrders :
       /\ Range(first) = Range(second)
       /\ arg = [entry |-> MakeEntry(AllHeaders, <<t, u, B, A>>),
                 first |-> first, second |-> second]
  /\ res = [pc |-> "idle", inputs |-> <<>>, hashes |-> <<>>]

HashInputOf(entry, selectedFields) ==
  buildHashInput(normalizeEntry(entry, selectedFields), SelectedCanonical(selectedFields))

\* lines 243-245 for the row, with each order of the selection
HashInputCall ==
  /\ res.pc = "idle"
  /\ LET inputs == <<HashInputOf(arg.entry, arg.first), HashInputOf(arg.entry, arg.second)>>
     IN res' = [pc |-> "done", inputs |-> inputs,
                hashes |-> <<sha256Hex(inputs[1]), sha256Hex(inputs[2])>>]
  /\ UNCHANGED <<panelVars, arg>>

NextHashInput == HashInputCall

SpecHashInput == InitHashInput /\ [][NextHashInput]_vars

\* the normalised values of the selected fields in the order title,
\* username, password, last modified
PartsInFieldOrder(entry, selected) ==
  (IF Title \in selected THEN <<normalizeText(Some(entry[Title]))>> ELSE <<>>)
  \o (IF Username \in selected THEN <<normalizeText(Some(entry[Username]))>> ELSE <<>>)
  \o (IF Password \in selected THEN <<normalizeText(Some(entry[Password]))>> ELSE <<>>)
  \o (IF LastModified \in selected THEN <<normalizeDate(Some(entry[LastModified]))>> ELSE <<>>)

\* C6: the hash input of a row is the normalised values of the selected
\* fields joined with "|" in the order title, username, password, last
\* modified; two orders of one set of selected fields give the same hash
\* input and the same identity hash.
C6_HashInputIndependentOfSelectionOrder ==
  res.pc = "done" =>
    /\ res.inputs[1] = res.inputs[2]
    /\ res.hashes[1] = res.hashes[2]
    /\ res.inputs[1] =
         Join(PartsInFieldOrder(arg.entry,
                {arg.first[i].canonical : i \in 1..Len(arg.first)}), <<"|">>)

\* password before title in one order, title before password in the other
C6_Witness ==
  /\ res.pc = "done"
  /\ Len(arg.first) = 2
  /\ arg.first # arg.second
  /\ arg.first[1].canonical = Password
  /\ arg.first[2].canonical = Title
  /\ arg.entry[Title] # arg.entry[Password]
  /\ res.inputs[1] = <<"a", "|", "b">>

(***************************************************************************)
(* Properties of the runs of one panel                                     *)
(***************************************************************************)
\* the result slot of a panel
Slot(p) == <<latestHashes[p], lastMerkleData[p], currentRootHash[p]>>

RunIds(p) == 1..Len(runs[p])

\* C1: a run that was suspended on a digest when a later updateResults
\* captured a runId never publishes: it never reaches the statements that
\* write latestHashes and lastMerkleData and call notifyChange, and no step
\* of it changes the slot or the highlighted hashes, whenever its digests
\* resolve.
C1_SupersededRunNeverPublishes ==
  [][\A p \in Panels : \A r \in RunIds(p) :
       runs[p][r].superseded =>
         /\ runs'[p][r].pc # "done"
         /\ runs'[p][r] # runs[p][r] =>
              /\ Slot(p)' = Slot(p)
              /\ highlightedHashes' = highlightedHashes]_vars

\* the first run returned at a staleness check after its digest resolved,
\* and the slot holds the output of the second
C1_Witness ==
  \E p \in Panels : \E r1, r2 \in RunIds(p) :
    /\ r1 < r2
    /\ runs[p][r1].superseded
    /\ runs[p][r1].pc = "abandoned"
    /\ runs[p][r1].digests > 0
    /\ runs[p][r2].pc = "done"
    /\ slotReq[p] = runs[p][r2].req
    /\ latestHashes[p] # <<>>

\* nothing is in flight on the panel and no digest failed
Settled(p) ==
  /\ reads[p] = <<>>
  /\ \A r \in RunIds(p) : runs[p][r].pc \in {"done", "abandoned"}

\* C2: when the requests made on a panel have all been served, the slot
\* holds what the most recent request published.
C2_LatestRequestPublished ==
  \A p \in Panels : Settled(p) => slotReq[p] = reqCount[p]

\* C3: once the counter differs from its runId, a suspended run starts no
\* further digest operation: when its digest resolves it returns, changing
\* nothing.
C3_StaleRunStartsNoDigest ==
  [][\A p \in Panels : \A r \in RunIds(p) :
       runs[p][r].pc \in Awaiting /\ IsStale(runs[p][r].runId, computationVersion[p]) =>
         /\ DigestsStarted(runs'[p][r]) = DigestsStarted(runs[p][r])
         /\ runs'[p][r] # runs[p][r] =>
              /\ runs'[p][r].pc \in {"abandoned", "failed"}
              /\ Slot(p)' = Slot(p)]_vars

Returned == res.pc = "returned"

\* node.title is a non-empty string
HasTitle(node) == node.title # Null /\ node.title[1] # <<>>

WellFormedTree(t) ==
  LET n == Len(t.levels)
  IN /\ n >= 1
     /\ Len(t.levels[n]) = 1
     /\ t.levels[n][1].hash = t.root
     /\ \A k \in 1..n : Len(t.levels[k]) > 1 => Len(t.levels[k]) % 2 = 0

ReturnsWellFormedTree ==
  Returned =>
    IF Len(arg) = 0 THEN res.result = Null
    ELSE res.result # Null /\ WellFormedTree(res.result[1])

\* C7: for every non-empty leaf sequence buildMerkleTree terminates and
\* returns a tree whose last level has exactly one node, the root, and whose
\* levels of more than one node have even length; for an empty leaf sequence
\* it returns null.
C7_TerminatesWithWellFormedTree == []ReturnsWellFormedTree /\ <>Returned

\* a tree of three levels was returned for five leaves
C7_Witness ==
  /\ Returned
  /\ Len(arg) = 5
  /\ res.result # Null
  /\ Len(res.result[1].levels) = 4

\* C8: a padding node has isDuplicate = TRUE, the hash of the node before
\* it (the last node of the level) and no title; no duplicate node in a tree
\* carries a title and no level of length 1 is padded.
C8_DuplicateCarriesNoTitle ==
  \A k \in 1..Len(res.levels) :
    LET level == res.levels[k]
    IN \A i \in 1..Len(level) :
         level[i].isDuplicate =>
           /\ i = Len(level)
           /\ i > 2
           /\ level[i].hash = level[i - 1].hash
           /\ ~level[i - 1].isDuplicate
           /\ ~HasTitle(level[i])

\* C9 as stated: every level k+1 has exactly half as many nodes as level k,
\* and each of its nodes is the combination of a pair of level k, with no
\* title and isDuplicate = FALSE.
C9_EveryLevelIsHalfTheLevelBelow ==
  Returned /\ res.result # Null =>
    LET levels == res.result[1].levels
    IN \A k \in 1..(Len(levels) - 1) :
         /\ Len(levels[k + 1]) * 2 = Len(levels[k])
         /\ \A i \in 1..Len(levels[k + 1]) :
              /\ levels[k + 1][i].hash =
                   doubleSha256Hex(levels[k][2 * i - 1].hash, levels[k][2 * i].hash)
              /\ levels[k + 1][i].title = Null
              /\ ~levels[k + 1][i].isDuplicate

\* the nodes of a level without its padding node
Unpadded(level) == SelectSeq(level, LAMBDA node : ~node.isDuplicate)

\* C9, amended: the nodes of level k+1 other than its padding node are
\* exactly half as many as the nodes of the padded level k; the i-th of
\* them has the double hash of the concatenated bytes of nodes 2i and 2i+1
\* of level k, left to right, no title and isDuplicate = FALSE; level k+1
\* has at most one more node, its padding node.  Three leaves h1, h2, h3
\* give [h1, h2, h3, dup(h3)], [HH(h1,h2), HH(h3,h3)] and the root.
C9_CombinedNodesAreHalfTheLevelBelow ==
  Returned /\ res.result # Null =>
    LET levels == res.result[1].levels
    IN /\ \A k \in 1..(Len(levels) - 1) :
            LET combined == Unpadded(levels[k + 1])
            IN /\ Len(combined) * 2 = Len(levels[k])
               /\ Len(levels[k + 1]) \in {Len(combined), Len(combined) + 1}
               /\ combined = SubSeq(levels[k + 1], 1, Len(combined))
               /\ \A i \in 1..Len(combined) :
                    /\ combined[i].hash =
                         doubleSha256Hex(levels[k][2 * i - 1].hash,
                                         levels[k][2 * i].hash)
                    /\ combined[i].title = Null
       /\ Len(arg) = 3 =>
            /\ Len(levels) = 3
            /\ [i \in 1..4 |-> levels[1][i].hash] =
                 <<arg[1].hash, arg[2].hash, arg[3].hash, arg[3].hash>>
            /\ [i \in 1..4 |-> levels[1][i].isDuplicate] = <<FALSE, FALSE, FALSE, TRUE>>
            /\ [i \in 1..2 |-> levels[2][i].hash] =
                 <<doubleSha256Hex(arg[1].hash, arg[2].hash),
                   doubleSha256Hex(arg[3].hash, arg[3].hash)>>
            /\ res.result[1].root =
                 doubleSha256Hex(levels[2][1].hash, levels[2][2].hash)

\* five leaves: level 1 holds three combined nodes and a padding node
C9_Witness ==
  /\ Returned
  /\ Len(arg) = 5
  /\ arg[1].hash # arg[2].hash
  /\ Len(res.result[1].levels[2]) = 4
  /\ res.result[1].levels[2][4].isDuplicate

\* C10: for exactly one leaf the tree has one level of one node, which is
\* not a duplicate; the root is the hash of the leaf and no digest
\* operation was started.
C10_SingleLeafIsRoot ==
  Returned /\ Len(arg) = 1 =>
    /\ res.result # Null
    /\ Len(res.result[1].levels) = 1
    /\ Len(res.result[1].levels[1]) = 1
    /\ ~res.result[1].levels[1][1].isDuplicate
    /\ res.result[1].levels[1][1].hash = arg[1].hash
    /\ res.result[1].root = arg[1].hash
    /\ res.digests = 0

C10_Witness == Returned /\ Len(arg) = 1 /\ res.result # Null /\ HasTitle(arg[1])

(***************************************************************************)
(* handleComparison on its own: a reference and a candidate leaf list      *)
(***************************************************************************)
MaxDiffLeaves == 2

HashA == sha256Hex(A)
HashB == sha256Hex(B)
HashC == sha256Hex(<<"c">>)

\* the leaf lists getHashes can return: leaves of up to MaxDiffLeaves rows
DiffLeaves == [hash : {HashA, HashB, HashC}, title : {Some(<<>>)}]
DiffLeafSeqs == UNION {[1..n -> DiffLeaves] : n \in 0..MaxDiffLeaves}

InitDiff ==
  /\ PanelsConstructed
  /\ dual \in BOOLEAN
  /\ computationVersion = [p \in Panels |-> 0]
  /\ arg \in [reference : DiffLeafSeqs, candidate : DiffLeafSeqs]
  /\ res = [pc |-> "idle", diff |-> {}]

\* handleComparison with leftController.getHashes() = arg.reference and
\* rightController.getHashes() = arg.candidate
DiffCall ==
  /\ res.pc = "idle"
  /\ res' = [pc |-> "compared",
             diff |-> handleComparison(dual, arg.reference, arg.candidate)]
  /\ UNCHANGED <<panelVars, arg>>

NextDiff == DiffCall

SpecDiff == InitDiff /\ [][NextDiff]_vars

HashSet(leaves) == {leaves[i].hash : i \in 1..Len(leaves)}

\* C11: in dual mode the diff is the set of candidate hashes that are not
\* in the reference set when both sides are non-empty, and the empty set
\* when the reference or the candidate is empty; so equal sides give the
\* empty diff, and reference {a,b} with candidate [a,c] gives {c} while the
\* swapped sides give {b}.
C11_DiffIsCandidateMinusReference ==
  res.pc = "compared" /\ dual =>
    LET reference == HashSet(arg.reference)
        candidate == HashSet(arg.candidate)
    IN /\ res.diff = IF reference = {} \/ candidate = {} THEN {}
                     ELSE candidate \ reference
       /\ reference = candidate => res.diff = {}
       /\ reference = {HashA, HashB} /\ candidate = {HashA, HashC}
            => res.diff = {HashC}
       /\ reference = {HashA, HashC} /\ candidate = {HashA, HashB}
            => res.diff = {HashB}

\* reference {a,b}, candidate [a,c]: the diff is {c}
C11_Witness ==
  /\ res.pc = "compared"
  /\ dual
  /\ HashSet(arg.reference) = {HashA, HashB}
  /\ [i \in 1..Len(arg.candidate) |-> arg.candidate[i].hash] = <<HashA, HashC>>
  /\ res.diff = {HashC}

(***************************************************************************)
(* parseCsv on its own                                                     *)
(***************************************************************************)
MaxCsvLen == 4

\* the characters of the texts: two letters and the characters the scanner
\* tests for
CsvAlphabet == {"a", "b", ",", QUOTE, "\n", "\r"}

\* "Smith, ""Bob""" with its enclosing quotes
SmithBob ==
  <<QUOTE, "S", "m", "i", "t", "h", ",", " ", QUOTE, QUOTE, "B", "o", "b",
    QUOTE, QUOTE, QUOTE>>

CsvExamples ==
  { SmithBob,
    <<"a", ",", "b", "\r", "\n", "\r", "\n", "b", "\n">>,
    <<"a", ",", QUOTE, QUOTE, ",", "b">> }

CsvTexts == UNION {[1..n -> CsvAlphabet] : n \in 0..MaxCsvLen} \cup CsvExamples

InitCsv ==
  /\ PanelsConstructed
  /\ dual = TRUE
  /\ computationVersion = [p \in Panels |-> 0]
  /\ arg \in CsvTexts
  /\ res = [pc |-> "idle", parsed |-> [headers |-> <<>>, rows |-> <<>>]]

\* const parsed = parseCsv(text)
CsvCall ==
  /\ res.pc = "idle"
  /\ res' = [pc |-> "parsed", parsed |-> parseCsv(arg)]
  /\ UNCHANGED <<panelVars, arg>>

NextCsv == CsvCall

\* parseCsv is synchronous code: once called it runs to its return
SpecCsv == InitCsv /\ [][NextCsv]_vars /\ WF_vars(NextCsv)

Parsed == res.pc = "parsed"

\* The quoting state machine as it is described: the rows of fields of a
\* text, the last row included, before any row is dropped.
RECURSIVE QuotedRows(_, _, _, _, _, _)
QuotedRows(text, i, rows, row, field, quoted) ==
  IF i > Len(text) THEN Append(rows, Append(row, field))
  ELSE LET char == text[i]
           next == IF i < Len(text) THEN <<text[i + 1]>> ELSE <<>>
       IN IF char = QUOTE /\ quoted /\ next = <<QUOTE>>
          THEN QuotedRows(text, i + 2, rows, row, Append(field, QUOTE), quoted)
          ELSE IF char = QUOTE
          THEN QuotedRows(text, i + 1, rows, row, field, ~quoted)
          ELSE IF char = "," /\ ~quoted
          THEN QuotedRows(text, i + 1, rows, Append(row, field), <<>>, quoted)
          ELSE IF char \in {"\n", "\r"} /\ ~quoted
          THEN QuotedRows(text, IF char = "\r" /\ next = <<"\n">> THEN i + 2 ELSE i + 1,
                          Append(rows, Append(row, field)), <<>>, <<>>, quoted)
          ELSE QuotedRows(text, i + 1, rows, row, Append(field, char), quoted)

\* the rows that are kept: all but those of a single empty field
Retained(rows) == SelectSeq(rows, LAMBDA row : row # << <<>> >>)

\* parsed is what the retained rows give: the first is the header row, each
\* later one a mapping of every header to the cell at its position (the
\* last position of a repeated header), the empty string past the end of
\* the row
FromRows(parsed, rows) ==
  IF rows = <<>> THEN parsed = [headers |-> <<>>, rows |-> <<>>]
  ELSE /\ parsed.headers = rows[1]
       /\ Len(parsed.rows) = Len(rows) - 1
       /\ \A k \in 1..Len(parsed.rows) :
            /\ DOMAIN parsed.rows[k] = Range(rows[1])
            /\ \A j \in 1..Len(rows[1]) :
                 (\A m \in (j + 1)..Len(rows[1]) : rows[1][m] # rows[1][j]) =>
                   parsed.rows[k][rows[1][j]] =
                     IF j <= Len(rows[k + 1]) THEN rows[k + 1][j] ELSE <<>>

\* C12: the scanner is the quoting state machine: a doubled quote inside a
\* quoted field is one literal quote, any other quote toggles the flag and
\* emits nothing, a comma ends the field and a line break (CRLF being one)
\* ends the row only outside quotes; so "Smith, ""Bob""" is the one value
\* Smith, "Bob" and two adjacent quotes that open and close a field give
\* the empty string.
C12_ScannerIsTheQuotingStateMachine ==
  Parsed => FromRows(res.parsed, Retained(QuotedRows(arg, 1, <<>>, <<>>, <<>>, FALSE)))

\* no two adjacent quotes: the texts on which a doubled quote plays no part
NoDoubledQuote(text) ==
  \A i \in 1..(Len(text) - 1) : ~(text[i] = QUOTE /\ text[i + 1] = QUOTE)

RowRetention ==
  Parsed =>
    /\ res.parsed.headers # << <<>> >>
    /\ res.parsed.headers = <<>> => res.parsed.rows = <<>>
    /\ \A k \in 1..Len(res.parsed.rows) :
         DOMAIN res.parsed.rows[k] = Range(res.parsed.headers)
    /\ NoDoubledQuote(arg) =>
         FromRows(res.parsed, Retained(QuotedRows(arg, 1, <<>>, <<>>, <<>>, FALSE)))

\* C13: parseCsv returns on every text, and its result follows the
\* retention rules: rows of a single empty field (a blank first line
\* included) are dropped, every other row is kept in input order, the first
\* kept row is the header row, every later one a mapping with every header
\* as a key, positionally, the empty string for the cells a short row
\* lacks; no kept row gives empty headers and empty rows.
C13_TerminatesWithRetainedRows == []RowRetention /\ <>Parsed

\* a header row, a blank line that is dropped and a short row
C13_Witness ==
  /\ Parsed
  /\ arg = <<"a", ",", "b", "\r", "\n", "\r", "\n", "b", "\n">>
  /\ res.parsed.headers = <<<<"a">>, <<"b">>>>
  /\ Len(res.parsed.rows) = 1
  /\ res.parsed.rows[1][<<"a">>] = <<"b">>
  /\ res.parsed.rows[1][<<"b">>] = <<>>

(***************************************************************************)
(* One panel, files whose headers differ from the canonical names          *)
(***************************************************************************)
MaxBindingRequests == 2

\* a file whose header " TITLE " binds the title and whose header notes
\* binds nothing, and a file none of whose headers binds a field
BindingFiles ==
  { Csv(<< << <<" ", "T", "I", "T", "L", "E", " ">>, <<"n", "o", "t", "e", "s">> >>,
           <<A, B>> >>),
    Csv(<< << <<"n", "a", "m", "e">> >>, <<A>> >>) }

NextBinding ==
  \/ \E p \in Loaded, text \in BindingFiles : FileChosen(p, text, MaxBindingRequests)
  \/ \E p \in Panels, k \in 1..MaxBindingRequests : FileTextResolved(p, k)
  \/ \E p \in Panels, k \in 1..MaxBindingRequests : FileTextRejected(p, k)
  \/ \E p \in Loaded, i \in 1..Len(FIELD_CONFIG) :
       CheckboxChanged(p, i, MaxBindingRequests)
  \/ \E p \in Loaded : ClearClicked(p, MaxBindingRequests)
  \/ \E p \in Panels, r \in 1..MaxBindingRequests : DigestResolved(p, r)
  \/ \E p \in Panels, r \in 1..MaxBindingRequests : DigestRejected(p, r)

SpecBinding == InitPanel /\ [][NextBinding]_vars

\* the positions of the headers of panel p that are the canonical name
\* after trimming and lower-casing
Matches(p, canonical) ==
  {k \in 1..Len(parsedHeaders[p]) : toCanonical(parsedHeaders[p][k]) = canonical}

\* C14: each configured field is bound to a header of the loaded file that
\* is its canonical name after trimming and lower-casing, or to no header
\* when there is none; the fields a run hashes are all bound, to headers of
\* the rows the run hashes, and the fields of the panel's latest run are
\* among the bound fields of the file the panel holds.
C14_SelectionWithinBoundFields ==
  \A p \in Panels :
    /\ activeFields[p] # <<>> =>
         /\ Len(activeFields[p]) = Len(FIELD_CONFIG)
         /\ \A i \in 1..Len(FIELD_CONFIG) :
              LET field == activeFields[p][i]
                  matches == Matches(p, FIELD_CONFIG[i].canonical)
              IN /\ field.canonical = FIELD_CONFIG[i].canonical
                 /\ IF matches = {} THEN field.headerName = Null
                    ELSE \E k \in matches : field.headerName = Some(parsedHeaders[p][k])
    /\ \A r \in RunIds(p) :
         \A j \in 1..Len(runs[p][r].selectedFields) :
           LET field == runs[p][r].selectedFields[j]
           IN /\ field.headerName # Null
              /\ runs[p][r].entries # <<>> =>
                   field.headerName[1] \in DOMAIN runs[p][r].entries[1]
              /\ runs[p][r].runId = computationVersion[p] =>
                   field \in Range(activeFields[p])

\* a run that hashes a field bound to a header written differently from the
\* canonical name, on a file that leaves other fields unbound
C14_Witness ==
  \E p \in Panels : \E r \in RunIds(p) :
    /\ runs[p][r].pc = "done"
    /\ latestHashes[p] # <<>>
    /\ \E j \in 1..Len(runs[p][r].selectedFields) :
         LET field == runs[p][r].selectedFields[j]
         IN field.headerName # Null /\ field.headerName[1] # field.canonical
    /\ \E i \in 1..Len(activeFields[p]) : activeFields[p][i].headerName = Null

(***************************************************************************)
(* normalizeDate on its own: UTC timestamps and texts that are no date     *)
(***************************************************************************)
\* the fraction of the second as it is written, the dot included
Fractions ==
  { <<>>, <<".", "0">>, <<".", "0", "0", "0">>, <<".", "5">>,
    <<".", "5", "0", "0">>, <<".", "0", "0", "1">>, <<".", "1", "2", "3">> }

Timestamps ==
  { PadNumber(year, 4) \o <<"-">> \o PadNumber(month, 2) \o <<"-">>
    \o PadNumber(day, 2) \o <<separator>> \o PadNumber(hour, 2) \o <<":", "3", "0", ":">>
    \o PadNumber(second, 2) \o fraction \o <<"Z">> :
      year \in {1999, 2024}, month \in {1, 12}, day \in {1, 28},
      separator \in {"T", " "}, hour \in {0, 23}, second \in {0, 59},
      fraction \in Fractions }

DateTexts == Timestamps \cup {<<>>, <<"a", "b">>, <<" ">>}

InitDate ==
  /\ PanelsConstructed
  /\ dual = TRUE
  /\ computationVersion = [p \in Panels |-> 0]
  /\ arg \in DateTexts
  /\ res = [pc |-> "idle", date |-> Null, text |-> <<>>]

\* normalizeDate(rawValue), with the Date that parseFlexibleDate returned
DateCall ==
  /\ res.pc = "idle"
  /\ res' = [pc |-> "normalized",
             date |-> IF normalizeText(Some(arg)) = <<>> THEN Null
                      ELSE parseFlexibleDate(normalizeText(Some(arg))),
             text |-> normalizeDate(Some(arg))]
  /\ UNCHANGED <<panelVars, arg>>

NextDate == DateCall

SpecDate == InitDate /\ [][NextDate]_vars

\* YYYY-MM-DDTHH:MM:SS of a Date, in UTC
IsoSeconds(date) ==
  PadNumber(date.year, 4) \o <<"-">> \o PadNumber(date.month, 2) \o <<"-">>
  \o PadNumber(date.day, 2) \o <<"T">> \o PadNumber(date.hour, 2) \o <<":">>
  \o PadNumber(date.minute, 2) \o <<":">> \o PadNumber(date.second, 2)

\* C15: the canonical string of a parsed date is its UTC ISO-8601 form
\* with the suffix Z, without the milliseconds when they are zero and with
\* them when they are not.
C15_NonzeroMillisecondsPreserved ==
  res.pc = "normalized" /\ res.date # Null =>
    res.text = IF res.date[1].millisecond = 0
               THEN IsoSeconds(res.date[1]) \o <<"Z">>
               ELSE IsoSeconds(res.date[1]) \o <<".">>
                    \o PadNumber(res.date[1].millisecond, 3) \o <<"Z">>

(***************************************************************************)
(* normalizeText on its own, applied twice                                 *)
(***************************************************************************)
MaxTextLen == 4

\* the letter b (which composes with no accent), the letter e and the
\* combining accent that composes with it, and white space
TextAlphabet == {"b", "e", CombiningAcute, " ", "\t"}

TextValues ==
  {Null} \cup {Some(t) : t \in UNION {[1..n -> TextAlphabet] : n \in 0..MaxTextLen}}

InitText ==
  /\ PanelsConstructed
  /\ dual = TRUE
  /\ computationVersion = [p \in Panels |-> 0]
  /\ arg \in TextValues
  /\ res = [pc |-> "idle", once |-> <<>>, twice |-> <<>>]

\* normalizeText(value)
TextCall ==
  /\ res.pc = "idle"
  /\ res' = [res EXCEPT !.pc = "once", !.once = normalizeText(arg)]
  /\ UNCHANGED <<panelVars, arg>>

\* normalizeText applied to its own result
TextCallAgain ==
  /\ res.pc = "once"
  /\ res' = [res EXCEPT !.pc = "twice", !.twice = normalizeText(Some(res.once))]
  /\ UNCHANGED <<panelVars, arg>>

NextText == TextCall \/ TextCallAgain

SpecText == InitText /\ [][NextText]_vars

\* C16: normalizeText is idempotent: applied to its own result it returns
\* that result, for every text and for the absent value (which gives the
\* empty text); its result has no white space at either end, no white
\* space but single spaces, and is composed.
C16_NormalizeTextIdempotent ==
  /\ res.pc = "twice" => res.twice = res.once
  /\ res.pc \in {"once", "twice"} =>
       /\ arg = Null => res.once = <<>>
       /\ \A i \in 1..Len(res.once) :
            /\ res.once[i] \in WhiteSpace =>
                 /\ res.once[i] = " "
                 /\ 1 < i /\ i < Len(res.once)
                 /\ res.once[i + 1] \notin WhiteSpace
            /\ res.once[i] = CombiningAcute => i = 1 \/ res.once[i - 1] # "e"

\* a text that each of trim, the collapse of white space and NFC changes
C16_Witness ==
  /\ res.pc = "twice"
  /\ arg = Some(<<" ", "e", CombiningAcute, "\t">>) \/ arg = Some(<<"b", " ", "\t", "e">>)
  /\ res.once # arg[1]
  /\ res.once # <<>>

(***************************************************************************)
(* Properties of the empty selection                                       *)
(***************************************************************************)
\* the run that the step appends to the runs of panel p has no field
StartsWithoutField(p) ==
  /\ Len(runs'[p]) = Len(runs[p]) + 1
  /\ runs'[p][Len(runs'[p])].selectedFields = <<>>

\* C17: a computation started on a panel that holds rows but has no field
\* selected issues no digest operation and publishes the empty result (no
\* leaves, no tree); the run is over at once and is never resumed.
C17_EmptySelectionHashesNothing ==
  /\ [](\A p \in Panels : \A r \in RunIds(p) :
          runs[p][r].selectedFields = <<>> =>
            DigestsStarted(runs[p][r]) = 0 /\ runs[p][r].pc = "done")
  /\ [][\A p \in Panels :
          StartsWithoutField(p) =>
            /\ parsedEntries'[p] # <<>>
            /\ latestHashes'[p] = <<>>
            /\ lastMerkleData'[p] = Null
            /\ currentRootHash'[p] = Null
            /\ slotReq'[p] = runs'[p][Len(runs'[p])].req]_vars

\* the last checked field of a loaded file was unchecked after its hashes
\* had been published: the panel shows the empty result
C17_Witness ==
  \E p \in Panels : \E r \in RunIds(p) :
    /\ r > 1
    /\ runs[p][r - 1].pc = "done"
    /\ runs[p][r - 1].digests > 0
    /\ runs[p][r].selectedFields = <<>>
    /\ parsedEntries[p] # <<>>
    /\ slotReq[p] = runs[p][r].req
    /\ latestHashes[p] = <<>>
    /\ lastMerkleData[p] = Null

(***************************************************************************)
(* Properties of the generation counter                                    *)
(***************************************************************************)
\* C18: the generation counter of a panel never decreases, and no two runs
\* of one panel captured the same run identifier.
C18_CounterGrowsRunIdsDistinct ==
  /\ [][\A p \in Panels : computationVersion'[p] >= computationVersion[p]]_vars
  /\ [](\A p \in Panels : \A r1, r2 \in RunIds(p) :
          r1 # r2 => runs[p][r1].runId # runs[p][r2].runId)
  /\ [](\A p \in Panels : \A r \in RunIds(p) :
          runs[p][r].runId <= computationVersion[p])

\* two runs of one panel, the second started while the first was suspended
C18_Witness ==
  \E p \in Panels : \E r1, r2 \in RunIds(p) :
    /\ r1 < r2
    /\ runs[p][r1].superseded
    /\ runs[p][r2].runId > runs[p][r1].runId
    /\ computationVersion[p] = runs[p][r2].runId
    /\ runs[p][r2].pc = "done"

(***************************************************************************)
(* The two panels side by side in dual mode: the events of each panel,     *)
(* files of one row                                                        *)
(***************************************************************************)
MaxPairRequests == 2

PairFiles ==
  { Csv(<< <<Title>>, <<A>> >>),
    Csv(<< <<Title>>, <<B>> >>) }

\* the events of panel p: a file load, a selection change, a clear, and the
\* continuations of its reads and runs
PanelEvent(p) ==
  \/ \E text \in PairFiles : FileChosen(p, text, MaxPairRequests)
  \/ \E k \in 1..MaxPairRequests : FileTextResolved(p, k)
  \/ \E k \in 1..MaxPairRequests : FileTextRejected(p, k)
  \/ \E i \in 1..Len(FIELD_CONFIG) : CheckboxChanged(p, i, MaxPairRequests)
  \/ ClearClicked(p, MaxPairRequests)
  \/ \E r \in 1..MaxPairRequests : DigestResolved(p, r)
  \/ \E r \in 1..MaxPairRequests : DigestRejected(p, r)

\* dual mode stays on: both panels are shown
NextPair ==
  \/ PanelEvent("left")
  \/ PanelEvent("right")

SpecPair == InitPanel /\ [][NextPair]_vars

\* what panel p holds: its counter, rows, bindings, checkboxes, reads, runs
\* and published result
Pipeline(p) ==
  <<computationVersion[p], parsedHeaders[p], parsedEntries[p], activeFields[p],
    columns[p], reads[p], runs[p], latestHashes[p], lastMerkleData[p],
    currentRootHash[p]>>

\* C19: an event of one panel (file load, selection change, clear, run
\* completion) leaves the other panel's counter, rows, bindings and
\* published leaves and tree as they are; the diff reads the published
\* leaf sets only and writes only the highlighted hashes of the right
\* (candidate) panel: those are always the diff of the two published leaf
\* sets, and the left panel has none.
C19_PanelsIndependent ==
  /\ [][\A p, q \in Panels :
          p # q /\ PanelEvent(q) =>
            /\ Pipeline(p)' = Pipeline(p)
            /\ p = "left" => highlightedHashes'[p] = highlightedHashes[p]]_vars
  /\ [](highlightedHashes["left"] = {})
  /\ [](highlightedHashes["right"] =
          handleComparison(dual, latestHashes["left"], latestHashes["right"]))

\* both panels hold published leaves and the right one has a leaf that is
\* highlighted
C19_Witness ==
  /\ dual
  /\ latestHashes["left"] # <<>>
  /\ latestHashes["right"] # <<>>
  /\ lastMerkleData["left"] # Null
  /\ highlightedHashes["right"] # {}

(***************************************************************************)
(* buildHashInput on two rows with one selection                           *)
(***************************************************************************)
\* cells without and with the separator of the hash input
SeparatorCells == {<<>>, A, B, <<"a", "|", "b">>, <<"b", "|", "a">>}

TwoHeaders == <<Title, Username>>

\* the selections of the fields of a file with a title and a username
TwoHeaderSelections ==
  {SelectSeq(buildActiveFields(TwoHeaders), LAMBDA f : f.canonical \in selected) :
     selected \in SUBSET Range(TwoHeaders)}

InitTwoRows ==
  /\ PanelsConstructed
  /\ dual = TRUE
  /\ computationVersion = [p \in Panels |-> 0]
  /\ \E t1, u1, t2, u2 \in SeparatorCells, fields \in TwoHeaderSelections :
       arg = [first |-> MakeEntry(TwoHeaders, <<t1, u1>>),
              second |-> MakeEntry(TwoHeaders, <<t2, u2>>),
              fields |-> fields]
  /\ res = [pc |-> "idle", inputs |-> <<>>, normalized |-> <<>>]

\* lines 243-244 for each of the two rows
TwoRowsCall ==
  /\ res.pc = "idle"
  /\ res' = [pc |-> "done",
             inputs |-> <<HashInputOf(arg.first, arg.fields),
                          HashInputOf(arg.second, arg.fields)>>,
             normalized |-> <<normalizeEntry(arg.first, arg.fields),
                              normalizeEntry(arg.second, arg.fields)>>]
  /\ UNCHANGED <<panelVars, arg>>

NextTwoRows == TwoRowsCall

SpecTwoRows == InitTwoRows /\ [][NextTwoRows]_vars

\* C20: two rows get the same hash input for one selection only if their
\* normalised values are equal for every selected field, also when a value
\* contains the character "|".
C20_HashInputInjective ==
  res.pc = "done" /\ res.inputs[1] = res.inputs[2] =>
    res.normalized[1] = res.normalized[2]

(***************************************************************************)
(* The page with the dual mode toggle: the events of both panels whose     *)
(* reads and digests succeed, and the toggle                               *)
(***************************************************************************)
MaxModeRequests == 2

ModeEvent(p) ==
  \/ \E text \in PairFiles : FileChosen(p, text, MaxModeRequests)
  \/ \E k \in 1..MaxModeRequests : FileTextResolved(p, k)
  \/ \E k \in 1..MaxModeRequests : FileTextRejected(p, k)
  \/ \E i \in 1..Len(FIELD_CONFIG) : CheckboxChanged(p, i, MaxModeRequests)
  \/ ClearClicked(p, MaxModeRequests)
  \/ \E r \in 1..MaxModeRequests : DigestResolved(p, r)

NextMode ==
  \/ ModeEvent("left")
  \/ ModeEvent("right")
  \/ DualToggled(MaxModeRequests)

SpecMode == Init /\ [][NextMode]_vars

MaxSlotRequests == 2

SlotFiles ==
  { Csv(<< <<Title>>, <<A>>, <<B>>, <<A>> >>),
    Csv(<< <<Title>>, <<B>> >>) }

NextSlot ==
  \/ \E p \in Loaded, text \in SlotFiles : FileChosen(p, text, MaxSlotRequests)
  \/ \E p \in Panels, k \in 1..MaxSlotRequests : FileTextResolved(p, k)
  \/ \E p \in Panels, k \in 1..MaxSlotRequests : FileTextRejected(p, k)
  \/ \E p \in Loaded, i \in 1..Len(FIELD_CONFIG) :
       CheckboxChanged(p, i, MaxSlotRequests)
  \/ \E p \in Loaded : ClearClicked(p, MaxSlotRequests)
  \/ \E p \in Panels, r \in 1..MaxSlotRequests : DigestResolved(p, r)

SpecSlot == InitPanel /\ [][NextSlot]_vars

\* the hashes of a sequence of nodes, in order
HashesOf(nodes) == [i \in 1..Len(nodes) |-> nodes[i].hash]

\* latestHashes, lastMerkleData and currentRootHash of panel p agree
SlotAgrees(p) ==
  /\ (latestHashes[p] = <<>>) <=> (lastMerkleData[p] = Null)
  /\ IF lastMerkleData[p] = Null
     THEN currentRootHash[p] = Null
     ELSE LET tree == lastMerkleData[p][1]
              real == SelectSeq(tree.levels[1], LAMBDA node : ~node.isDuplicate)
          IN /\ HashesOf(real) = HashesOf(latestHashes[p])
             /\ currentRootHash[p] = Some(tree.root)

\* the runs of panel p that published the slot it holds
Publishers(p) ==
  {r \in 1..Len(runs[p]) : runs[p][r].req = slotReq[p] /\ runs[p][r].pc = "done"}

\* C22 as stated: between event handlers the slot of every panel is
\* coherent: latestHashes is empty exactly when lastMerkleData is null;
\* otherwise the non-duplicate nodes of level 0 are, in order, the hashes
\* of latestHashes, one for each row of state.parsedEntries, and
\* currentRootHash is the root of the tree (no root when there is no tree).
C22_SlotCoherentWithLoadedRows ==
  \A p \in Panels :
    /\ SlotAgrees(p)
    /\ latestHashes[p] # <<>> => Len(latestHashes[p]) = Len(parsedEntries[p])

\* C22 amended: the slot is coherent as above, with one leaf for each row
\* the run that published the slot hashed (equal rows are not merged); the
\* leaves are one for each row of state.parsedEntries whenever the latest
\* run of the panel is the one that published.
C22_SlotCoherentWithPublishedRows ==
  \A p \in Panels :
    /\ SlotAgrees(p)
    /\ latestHashes[p] # <<>> =>
         /\ Publishers(p) # {}
         /\ \A r \in Publishers(p) : runs[p][r].index = Len(latestHashes[p])
         /\ Len(runs[p]) \in Publishers(p) =>
              Len(latestHashes[p]) = Len(parsedEntries[p])

\* the file of three rows was published: three leaves, two of them with the
\* same hash, and a padded level 0 of four nodes
C22_Witness ==
  /\ Len(latestHashes["left"]) = 3
  /\ Len(parsedEntries["left"]) = 3
  /\ \E i, j \in 1..3 : i # j /\ latestHashes["left"][i].hash = latestHashes["left"][j].hash
  /\ lastMerkleData["left"] # Null
  /\ Len(lastMerkleData["left"][1].levels[1]) = 4

(***************************************************************************)
(* Runs whose digests all resolve: the events of the loaded panel (the     *)
(* other panel starts no run), with a digest operation in flight           *)
(* eventually resolving successfully                                       *)
(***************************************************************************)
MaxLiveRequests == 2

LiveFiles ==
  { Csv(<< <<Title>>, <<A>>, <<B>> >>),
    Csv(<< <<Title>> >>) }

NextLive ==
  \/ \E p \in Loaded, text \in LiveFiles : FileChosen(p, text, MaxLiveRequests)
  \/ \E p \in Loaded, k \in 1..MaxLiveRequests : FileTextResolved(p, k)
  \/ \E p \in Loaded, i \in 1..Len(FIELD_CONFIG) :
       CheckboxChanged(p, i, MaxLiveRequests)
  \/ \E p \in Loaded : ClearClicked(p, MaxLiveRequests)
  \/ \E p \in Loaded, r \in 1..MaxLiveRequests : DigestResolved(p, r)

\* a digest operation in flight resolves
SomeDigestResolved ==
  \E p \in Loaded, r \in 1..MaxLiveRequests : DigestResolved(p, r)

\* the user may stop at any point and a read may stay pending; while digest
\* operations are in flight, one of them resolves
SpecLive == InitPanel /\ [][NextLive]_vars /\ WF_vars(SomeDigestResolved)

\* run r of panel p is suspended at a digest
Suspended(p, r) == r <= Len(runs[p]) /\ runs[p][r].pc \in Awaiting

\* run r of panel p is the most recently started one and the counter still
\* holds its runId: no run was started and no reset happened since
Current(p, r) ==
  /\ r = Len(runs[p])
  /\ runs[p][r].runId = computationVersion[p]

\* run r of panel p returned after publishing a leaf set and a tree
PublishedResult(p, r) ==
  /\ r <= Len(runs[p])
  /\ runs[p][r].pc = "done"
  /\ slotReq[p] = runs[p][r].req
  /\ Len(latestHashes[p]) = runs[p][r].index
  /\ latestHashes[p] # <<>>
  /\ lastMerkleData[p] # Null

\* run r of panel p has returned or failed
RunOver(p, r) == r <= Len(runs[p]) /\ runs[p][r].pc \notin Awaiting

\* C23: when every digest operation in flight resolves successfully, no run
\* stays suspended forever, and the most recently started run of a panel,
\* once it has returned with the counter still holding its runId (no later
\* run was started and the panel was not reset), has published: a leaf set
\* and a tree when it had a selection, the empty slot otherwise.
C23_LatestRunPublishes ==
  /\ [](\A p \in Loaded, r \in 1..MaxLiveRequests :
         RunOver(p, r) /\ Current(p, r) =>
           IF runs[p][r].selectedFields # <<>>
           THEN PublishedResult(p, r)
           ELSE runs[p][r].pc = "done" /\ latestHashes[p] = <<>>)
  /\ \A p \in Loaded, r \in 1..MaxLiveRequests : []<>~Suspended(p, r)

\* the only run of the left panel hashed two rows, built the tree and
\* published while the counter still held its runId
C23_Witness ==
  /\ Len(runs["left"]) = 1
  /\ Current("left", 1)
  /\ PublishedResult("left", 1)
  /\ runs["left"][1].digests = 6

====
